---- MODULE Spec2Model ----
(***************************************************************************)
(* Calendar grid of the JCI Zoom assistant (components/CalendarView.tsx,   *)
(* utils/timezone.ts).                                                     *)
(*                                                                         *)
(* A JavaScript Date is modelled as an instant: whole minutes since        *)
(* 1970-01-01T00:00Z.  Its local-time methods (getDay, getDate, setDate,   *)
(* setMonth, new Date(y, m, d)) read and write the fields of that instant  *)
(* in the local zone of the runtime, a fixed UTC offset tzOffset (minutes) *)
(* that the browser decides; toLocaleDateString with timeZone APP_TIMEZONE *)
(* reads them at the fixed app offset +08:00.  Pixel values are exact      *)
(* rationals kept as sixtieths of a pixel (top60 = 60 * top).              *)
(***************************************************************************)
EXTENDS Integers, Sequences, FiniteSets, TLC

VARIABLES
    now,              \* wall clock of the runtime: the instant `new Date()` returns
    tzOffset,         \* local UTC offset of the runtime, minutes east of UTC
    mode,             \* useState<CalendarMode>: "week" | "month"
    currentDate,      \* useState<Date>: the navigation cursor, an instant
    selectedMeeting,  \* useState<Meeting | null>: NoMeeting or <<the Meeting>>
    meetings,         \* props.meetings: the snapshot the parent supplied
    refDate,          \* cursor of the same run on a runtime whose local zone is the app zone
    navCount,         \* Previous/Next presses since the cursor was last set to today
    emitted,          \* the calls of props.onDelete / props.onEdit the last handler made, in order
    app               \* state of the App component around the views, and of its collaborators

vars == <<now, tzOffset, mode, currentDate, selectedMeeting, meetings, refDate, navCount, emitted, app>>

-----------------------------------------------------------------------------
\* Program constants

START_HOUR == 8
END_HOUR == 24
CELL_HEIGHT == 44
\* APP_TIMEZONE "Asia/Kuala_Lumpur": UTC+8 with no daylight saving, in minutes
APP_TZ_OFFSET == 480
\* dayMeetings.slice(0, 3): the month cell's display cap
MONTH_CELL_CAP == 3

\* selectedMeeting is a sequence: empty for null, else the one Meeting
NoMeeting == <<>>
\* stands for NaN: no hour, minute or pixel value of a well-formed time equals it
NaN == 0 - 1073741824

-----------------------------------------------------------------------------
\* Bounds of the model

\* the clock starts at ClockFirstHour:00 UTC of a start day and ticks by
\* ClockStep minutes up to ClockLastHour:00 UTC (app midnight is 16:00 UTC)
ClockFirstHour == 15
ClockLastHour == 17
ClockStep == 75
\* Previous/Next are pressed at most MaxNav times in a row before Today is
MaxNav == 2
\* cell heights 1..MaxCellHeight px are tried next to CELL_HEIGHT
MaxCellHeight == 2
\* the list view is given snapshots of at most MaxListLen meetings
MaxListLen == 3
\* the booking form is submitted at most MaxSubmits times
MaxSubmits == 2
\* syncMeetingsFromZoom is started at most MaxSyncs times
MaxSyncs == 1
\* handleDelete is confirmed at most MaxDeletes times
MaxDeletes == 1

\* local UTC offsets of the runtimes considered (New York, London, Kuala
\* Lumpur, Tokyo), minutes east of UTC
LocalOffsets == {-300, 0, 480, 540}

\* navigate(-1) and navigate(1): the two chevron buttons
Deltas == {-1, 1}

-----------------------------------------------------------------------------
\* ECMAScript date arithmetic (proleptic Gregorian calendar), on day numbers
\* since 1970-01-01 and on instants in minutes

MinutesPerDay == 24 * 60

Day(t) == t \div MinutesPerDay

TimeWithinDay(t) == t % MinutesPerDay

\* [y, m, d] of a day number, m in 1..12
CivilFromDays(days) ==
    LET z == days + 719468
        era == z \div 146097
        doe == z - era * 146097
        yoe == (doe - (doe \div 1460) + (doe \div 36524) - (doe \div 146096)) \div 365
        doy == doe - (365 * yoe + (yoe \div 4) - (yoe \div 100))
        mp == (5 * doy + 2) \div 153
        d == doy - ((153 * mp + 2) \div 5) + 1
        m == IF mp < 10 THEN mp + 3 ELSE mp - 9
        y == yoe + era * 400 + (IF m <= 2 THEN 1 ELSE 0)
    IN  [y |-> y, m |-> m, d |-> d]

\* day number of the civil date y-m-d, m in 1..12, d any integer
DaysFromCivil(y, m, d) ==
    LET yy == IF m <= 2 THEN y - 1 ELSE y
        era == yy \div 400
        yoe == yy - era * 400
        doy == ((153 * (IF m > 2 THEN m - 3 ELSE m + 9) + 2) \div 5) + d - 1
        doe == yoe * 365 + (yoe \div 4) - (yoe \div 100) + doy
    IN  era * 146097 + doe - 719468

YearFromTime(t) == CivilFromDays(Day(t)).y

\* 0 = January .. 11 = December
MonthFromTime(t) == CivilFromDays(Day(t)).m - 1

DateFromTime(t) == CivilFromDays(Day(t)).d

\* 0 = Sunday .. 6 = Saturday
WeekDay(t) == (Day(t) + 4) % 7

\* month and date may lie outside their ranges: they roll over
MakeDay(year, month, date) ==
    DaysFromCivil(year + (month \div 12), (month % 12) + 1, 1) + date - 1

MakeDate(day, time) == day * MinutesPerDay + time

LocalTime(t, tz) == t + tz

UTC(t, tz) == t - tz

-----------------------------------------------------------------------------
\* Date methods the calendar calls; tz is the local offset of the runtime

getDay(d, tz) == WeekDay(LocalTime(d, tz))

getDate(d, tz) == DateFromTime(LocalTime(d, tz))

getMonth(d, tz) == MonthFromTime(LocalTime(d, tz))

getFullYear(d, tz) == YearFromTime(LocalTime(d, tz))

setDate(d, dt, tz) ==
    LET t == LocalTime(d, tz)
    IN  UTC(MakeDate(MakeDay(YearFromTime(t), MonthFromTime(t), dt), TimeWithinDay(t)), tz)

setMonth(d, mo, tz) ==
    LET t == LocalTime(d, tz)
    IN  UTC(MakeDate(MakeDay(YearFromTime(t), mo, DateFromTime(t)), TimeWithinDay(t)), tz)

\* new Date(year, monthIndex, date): local midnight
NewLocalDate(year, month, date, tz) == UTC(MakeDate(MakeDay(year, month, date), 0), tz)

-----------------------------------------------------------------------------
\* Strings

Digits == <<"0", "1", "2", "3", "4", "5", "6", "7", "8", "9">>

Pad2(n) == Digits[((n \div 10) % 10) + 1] \o Digits[(n % 10) + 1]

Pad4(n) == Pad2(n \div 100) \o Pad2(n % 100)

IsDigit(c) == \E i \in 1..10 : Digits[i] = c

DigitValue(c) == (CHOOSE i \in 1..10 : Digits[i] = c) - 1

\* Number(s) for the strings split(':') can hand it: decimal digits give
\* their value, the empty string 0, anything else NaN
RECURSIVE NumberFrom(_, _, _)
NumberFrom(s, i, acc) ==
    IF i > Len(s) THEN acc
    ELSE IF IsDigit(SubSeq(s, i, i))
         THEN NumberFrom(s, i + 1, acc * 10 + DigitValue(SubSeq(s, i, i)))
         ELSE NaN

Number(s) == NumberFrom(s, 1, 0)

\* s.split(sep) for a one-character separator
RECURSIVE SplitFrom(_, _, _, _)
SplitFrom(s, sep, start, i) ==
    IF i > Len(s) THEN <<SubSeq(s, start, Len(s))>>
    ELSE IF SubSeq(s, i, i) = sep
         THEN <<SubSeq(s, start, i - 1)>> \o SplitFrom(s, sep, i + 1, i + 1)
         ELSE SplitFrom(s, sep, start, i + 1)

Split(s, sep) == SplitFrom(s, sep, 1, 1)

\* d.toLocaleDateString('en-CA', { timeZone }): "YYYY-MM-DD" of the instant
\* in the zone at offset zone
toLocaleDateString(d, zone) ==
    LET c == CivilFromDays(Day(d + zone))
    IN  Pad4(c.y) \o "-" \o Pad2(c.m) \o "-" \o Pad2(c.d)

\* new Date(`${date}T${hh}:00:00+08:00`): the ISO date-time form with an
\* explicit offset, date a "YYYY-MM-DD" string
ParseIsoWithOffset(date, hh, offset) ==
    LET y == Number(SubSeq(date, 1, 4))
        m == Number(SubSeq(date, 6, 7))
        d == Number(SubSeq(date, 9, 10))
    IN  MakeDate(MakeDay(y, m - 1, d), hh * 60) - offset

-----------------------------------------------------------------------------
\* utils/timezone.ts

\* `${String(h).padStart(2, "0")}:${String(m).padStart(2, "0")}`
formatStartTime(h, m) == Pad2(h) \o ":" \o Pad2(m)

\* getTodayInAppTz(), with `new Date()` returning the instant clock
getTodayInAppTz(clock) == toLocaleDateString(clock, APP_TZ_OFFSET)

\* the hour cycle an engine uses for { hour12: false } in the locale en-CA,
\* whose own cycle is h12: h23 (hours 00..23), or h24 (hours 01..24, midnight
\* is 24) on engines that follow ECMA-402 before its 2023 edition
HourCycles == {"h23", "h24"}

\* d.toLocaleTimeString("en-CA", { timeZone, hour: "2-digit", minute:
\* "2-digit", hour12: false }): "HH:mm" of the instant in the zone at offset
\* zone, on an engine with hour cycle hc
toLocaleTimeString(d, zone, hc) ==
    LET t == TimeWithinDay(d + zone)
        h == IF hc = "h24" /\ t \div 60 = 0 THEN 24 ELSE t \div 60
    IN  Pad2(h) \o ":" \o Pad2(t % 60)

\* nowInAppTz(): hour and minute of the instant clock on the app zone's wall
\* clock, as read back from the formatted time
nowInAppTz(clock, hc) ==
    LET parts == Split(toLocaleTimeString(clock, APP_TZ_OFFSET, hc), ":")
    IN  [hours |-> Number(parts[1]), minutes |-> Number(parts[2])]

\* minutes since the epoch of an ISO string "YYYY-MM-DDTHH:mm:ss+HH:MM" with
\* an explicit offset, as Date.parse reads it; NaN for a string that is not of
\* that form or has a field out of range; 24:00:00 is the end of the day (a
\* day 29..31 that the month does not have is read differently by different
\* engines and is left out here)
DateParse(str) ==
    LET field(a, b) == Number(SubSeq(str, a, b))
        numeric(a, b) == b - a + 1 = Cardinality({i \in a..b : IsDigit(SubSeq(str, i, i))})
        y == field(1, 4)
        mo == field(6, 7)
        d == field(9, 10)
        hh == field(12, 13)
        mi == field(15, 16)
        ss == field(18, 19)
        oh == field(21, 22)
        om == field(24, 25)
        sign == IF SubSeq(str, 20, 20) = "-" THEN 0 - 1 ELSE 1
    IN  IF /\ Len(str) = 25
           /\ numeric(1, 4) /\ numeric(6, 7) /\ numeric(9, 10) /\ numeric(12, 13)
           /\ numeric(15, 16) /\ numeric(18, 19) /\ numeric(21, 22) /\ numeric(24, 25)
           /\ SubSeq(str, 5, 5) = "-" /\ SubSeq(str, 8, 8) = "-" /\ SubSeq(str, 11, 11) = "T"
           /\ SubSeq(str, 14, 14) = ":" /\ SubSeq(str, 17, 17) = ":" /\ SubSeq(str, 23, 23) = ":"
           /\ SubSeq(str, 20, 20) \in {"+", "-"}
           /\ mo \in 1..12 /\ d \in 1..31 /\ mi \in 0..59 /\ ss \in 0..59
           /\ hh \in 0..23 \/ (hh = 24 /\ mi = 0 /\ ss = 0)
           /\ oh \in 0..23 /\ om \in 0..59
        THEN MakeDate(MakeDay(y, mo - 1, d), hh * 60 + mi) - sign * (oh * 60 + om)
        ELSE NaN

\* parseAsAppTz(date, startTime).getTime(), in minutes:
\* new Date(`${date}T${startTime}:00+08:00`)
parseAsAppTz(date, startTime) == DateParse(date \o "T" \o startTime \o ":00+08:00")

\* d.toISOString() of an instant on a full minute: "YYYY-MM-DDTHH:mm:00Z"
\* Body of value, with value computed once
With(value, Body(_)) == CHOOSE out \in {Body(v) : v \in {value}} : TRUE

toISOString(d) ==
    toLocaleDateString(d, 0) \o "T" \o Pad2(TimeWithinDay(d) \div 60) \o ":"
        \o Pad2(TimeWithinDay(d) % 60) \o ":00Z"

\* /Z$|[+-]\d{2}:?\d{2}$/.test(t), for the strings of the forms
\* "YYYY-MM-DDTHH:mm:ss", with "Z" or with "+HH:MM" behind it
HasZone(t) ==
    \/ Len(t) >= 1 /\ SubSeq(t, Len(t), Len(t)) = "Z"
    \/ /\ Len(t) >= 6
       /\ SubSeq(t, Len(t) - 5, Len(t) - 5) \in {"+", "-"}
       /\ SubSeq(t, Len(t) - 2, Len(t) - 2) = ":"

\* new Date(t) of a date-time string with a zone: "Z" is the offset +00:00
NewDate(t) ==
    IF Len(t) = 20 /\ SubSeq(t, 20, 20) = "Z"
    THEN DateParse(SubSeq(t, 1, 19) \o "+00:00")
    ELSE DateParse(t)

\* parseAsUtc(s), for strings without blanks around them
parseAsUtc(str) ==
    IF str = "" THEN NaN
    ELSE IF HasZone(str) THEN NewDate(str)
    ELSE NewDate(str \o "Z")

\* utcToAppTz(utcIso), on an engine with hour cycle hc; an invalid Date is
\* formatted as "Invalid Date", whose split(":") has one part that is no number
utcToAppTz(utcIso, hc) ==
    LET datePart(d) == IF d = NaN THEN "Invalid Date" ELSE toLocaleDateString(d, APP_TZ_OFFSET)
        timePart(d) == IF d = NaN THEN "Invalid Date" ELSE toLocaleTimeString(d, APP_TZ_OFFSET, hc)
        h(parts) == Number(parts[1])
        m(parts) == IF Len(parts) >= 2 THEN Number(parts[2]) ELSE NaN
        shown(n) == With(n, LAMBDA v : IF v = NaN THEN "NaN" ELSE Pad2(v))
    IN  With(parseAsUtc(utcIso), LAMBDA d :
            With(Split(timePart(d), ":"), LAMBDA parts :
                [date |-> datePart(d), startTime |-> shown(h(parts)) \o ":" \o shown(m(parts))]))

-----------------------------------------------------------------------------
\* components/ListView.tsx

\* variant: the meetings are compared by their time of day alone
compareMeetings_TimeOnly(a, b) ==
    LET da == parseAsAppTz("2025-01-01", a.startTime)
        db == parseAsAppTz("2025-01-01", b.startTime)
    IN  IF da = NaN \/ db = NaN THEN NaN ELSE da - db

\* the comparator (a, b) => da - db; NaN when one of the dates is invalid
compareMeetings(a, b) ==
    LET da == parseAsAppTz(a.date, a.startTime)
        db == parseAsAppTz(b.date, b.startTime)
    IN  IF da = NaN \/ db = NaN THEN NaN ELSE da - db

\* Array.prototype.sort's use of the comparator: a comes after b exactly if
\* the comparator's value is greater than 0 (NaN counts as 0)
SortsAfter(a, b) ==
    LET v == compareMeetings(a, b) IN v # NaN /\ v > 0

\* the stable sort: each element is put behind the elements placed so far
\* that it does not sort before
RECURSIVE InsertSorted(_, _)
InsertSorted(placed, x) ==
    IF placed = <<>> THEN <<x>>
    ELSE IF SortsAfter(placed[Len(placed)], x)
         THEN Append(InsertSorted(SubSeq(placed, 1, Len(placed) - 1), x), placed[Len(placed)])
         ELSE Append(placed, x)

\* const sorted = [...meetings].sort(...)
sorted(ms) ==
    LET placed[i \in 0..Len(ms)] ==
            IF i = 0 THEN <<>>
            ELSE With(placed[i - 1], LAMBDA sofar : InsertSorted(sofar, ms[i]))
    IN  placed[Len(ms)]

-----------------------------------------------------------------------------
\* components/CalendarView.tsx: the calendar arithmetic

\* variant: the '+08:00' suffix left out, so noon is read on the runtime's local zone
TodayCursor_LocalNoon(clock) == ParseIsoWithOffset(getTodayInAppTz(clock), 12, tzOffset)

\* new Date(getTodayInAppTz() + 'T12:00:00+08:00'): noon of today on the app zone
TodayCursor(clock) == ParseIsoWithOffset(getTodayInAppTz(clock), 12, APP_TZ_OFFSET)

getStartOfWeek(d, tz) ==
    LET day == getDay(d, tz)
        diff == getDate(d, tz) - day + (IF day = 0 THEN -6 ELSE 1)
    IN  setDate(d, diff, tz)

\* the Dates of the 7 day columns
weekDays(cur, tz) ==
    LET startOfWeek == getStartOfWeek(cur, tz)
    IN  [i \in 1..7 |-> setDate(startOfWeek, getDate(startOfWeek, tz) + (i - 1), tz)]

getStartOfMonth(d, tz) == NewLocalDate(getFullYear(d, tz), getMonth(d, tz), 1, tz)

\* the Dates of the 42 month cells
monthDays(cur, tz) ==
    LET start == getStartOfMonth(cur, tz)
        dayOfWeek == getDay(start, tz)
        padStart == IF dayOfWeek = 0 THEN 6 ELSE dayOfWeek - 1
        gridStart == setDate(start, getDate(start, tz) - padStart, tz)
    IN  [i \in 1..42 |-> setDate(gridStart, getDate(gridStart, tz) + (i - 1), tz)]

\* variant: the week step starts from getDay() (weekday) where getDate() is meant
navigate_FromWeekday(cur, md, delta, tz) ==
    IF md = "week"
    THEN setDate(cur, getDay(cur, tz) + delta * 7, tz)
    ELSE setMonth(cur, getMonth(cur, tz) + delta, tz)

\* the cursor navigate(delta) sets
navigate(cur, md, delta, tz) ==
    IF md = "week"
    THEN setDate(cur, getDate(cur, tz) + delta * 7, tz)
    ELSE setMonth(cur, getMonth(cur, tz) + delta, tz)

toLocalDateKey(d) == toLocaleDateString(d, APP_TZ_OFFSET)

\* the Dates the view renders, one per column (week) or cell (month)
WindowDays(cur, md, tz) == IF md = "week" THEN weekDays(cur, tz) ELSE monthDays(cur, tz)

\* the date-keys of those columns or cells, in grid order
WindowKeys(cur, md, tz) ==
    LET days == WindowDays(cur, md, tz)
    IN  [i \in 1..Len(days) |-> toLocalDateKey(days[i])]

-----------------------------------------------------------------------------
\* components/CalendarView.tsx: geometry of a meeting block, in sixtieths of a pixel

\* variant: the start hour is not subtracted
verticalOffset_NoStartHour(hours, minutes, startHour, cellHeight) ==
    IF hours = NaN \/ minutes = NaN THEN NaN
    ELSE (hours * cellHeight) * 60 + minutes * cellHeight

\* variant: minutes / 60 truncated to a whole number of hours
verticalOffset_WholeHours(hours, minutes, startHour, cellHeight) ==
    IF hours = NaN \/ minutes = NaN THEN NaN
    ELSE ((hours - startHour) * cellHeight) * 60 + ((minutes \div 60) * 60) * cellHeight

\* ((hours - START_HOUR) * CELL_HEIGHT) + ((minutes / 60) * CELL_HEIGHT)
verticalOffset(hours, minutes, startHour, cellHeight) ==
    IF hours = NaN \/ minutes = NaN THEN NaN
    ELSE ((hours - startHour) * cellHeight) * 60 + minutes * cellHeight

\* (durationMinutes / 60) * CELL_HEIGHT
blockHeight(durationMinutes, cellHeight) == durationMinutes * cellHeight

\* const [hours, minutes] = meeting.startTime.split(':').map(Number)
ParseStartTime(startTime) ==
    LET parts == Split(startTime, ":")
    IN  [hours |-> Number(parts[1]),
         minutes |-> IF Len(parts) >= 2 THEN Number(parts[2]) ELSE NaN]

\* variant: the block is clipped to the hours the grid shows
getMeetingStyle_Clipped(meeting) ==
    LET hm == ParseStartTime(meeting.startTime)
        top == verticalOffset(hm.hours, hm.minutes, START_HOUR, CELL_HEIGHT)
        height == blockHeight(meeting.durationMinutes, CELL_HEIGHT)
        bottom == (END_HOUR - START_HOUR) * CELL_HEIGHT * 60
        clippedTop == IF top < 0 THEN 0 ELSE top
    IN  [top |-> clippedTop,
         height |-> IF clippedTop + height > bottom THEN bottom - clippedTop ELSE height]

getMeetingStyle(meeting) ==
    LET hm == ParseStartTime(meeting.startTime)
    IN  [top |-> verticalOffset(hm.hours, hm.minutes, START_HOUR, CELL_HEIGHT),
         height |-> blockHeight(meeting.durationMinutes, CELL_HEIGHT)]

-----------------------------------------------------------------------------
\* components/CalendarView.tsx: what a render puts on the screen

\* variant: the dates are compared as numbers (year, month, day), not as strings
dayMeetings_ByNumbers(ms, dateKey) ==
    LET nums(str) == [j \in 1..Len(Split(str, "-")) |-> Number(Split(str, "-")[j])]
    IN  SelectSeq(ms, LAMBDA m : nums(m.date) = nums(dateKey))

\* meetings.filter(m => m.date === dateKey)
dayMeetings(ms, dateKey) == SelectSeq(ms, LAMBDA m : m.date = dateKey)

\* the meetings drawn in a week column: all of the day's, each with its style
WeekColumn(ms, dateKey) ==
    LET dm == dayMeetings(ms, dateKey)
    IN  [k \in 1..Len(dm) |-> [meeting |-> dm[k], style |-> getMeetingStyle(dm[k])]]

\* variant: the last three of the day are kept, dayMeetings.slice(-3)
MonthCell_LastThree(ms, dateKey) ==
    LET dm == dayMeetings(ms, dateKey)
    IN  SubSeq(dm, IF Len(dm) < MONTH_CELL_CAP THEN 1 ELSE Len(dm) - MONTH_CELL_CAP + 1, Len(dm))

\* the meetings drawn in a month cell: dayMeetings.slice(0, 3)
MonthCell(ms, dateKey) ==
    LET dm == dayMeetings(ms, dateKey)
    IN  SubSeq(dm, 1, IF Len(dm) < MONTH_CELL_CAP THEN Len(dm) ELSE MONTH_CELL_CAP)

\* the meetings drawn under a date-key in the given mode, in screen order
Drawn(ms, md, dateKey) ==
    IF md = "week"
    THEN LET col == WeekColumn(ms, dateKey) IN [k \in 1..Len(col) |-> col[k].meeting]
    ELSE MonthCell(ms, dateKey)

\* the "+n more" label of a month cell: 0 when there is none
MoreCount(ms, dateKey) ==
    LET n == Len(dayMeetings(ms, dateKey))
    IN  IF n > MONTH_CELL_CAP THEN n - MONTH_CELL_CAP ELSE 0

\* variant: today is read off the UTC calendar, new Date().toISOString().split('T')[0]
isToday_UtcDay(clock, dateKey) == toLocaleDateString(clock, 0) = dateKey

\* isToday of a column or cell, at a render taking place at the instant clock
isToday(clock, dateKey) == getTodayInAppTz(clock) = dateKey

\* variant: the line is placed as in a grid that starts at midnight
nowIndicatorTop_FromMidnight(hours, minutes) == (hours * CELL_HEIGHT) * 60 + minutes * CELL_HEIGHT

\* top of the now line, in sixtieths of a pixel:
\* ((hours - START_HOUR) * CELL_HEIGHT) + ((minutes / 60) * CELL_HEIGHT)
nowIndicatorTop(hours, minutes) ==
    ((hours - START_HOUR) * CELL_HEIGHT) * 60 + minutes * CELL_HEIGHT

\* the now line of a column or cell at a render taking place at the instant
\* clock: <<top>> where it is drawn, <<>> where it is not
NowIndicator(clock, md, dateKey, hc) ==
    IF md = "week" /\ isToday(clock, dateKey)
    THEN LET nw == nowInAppTz(clock, hc) IN <<nowIndicatorTop(nw.hours, nw.minutes)>>
    ELSE <<>>

\* the elements of a list
Range(f) == {f[i] : i \in DOMAIN f}

\* a function on 1..n as the list of its values (Array.prototype.map's result)
Listed(f) == SelectSeq(f, LAMBDA x : TRUE)

\* what a render taking place at the instant clock puts on the screen, from
\* the props and state it reads: the date-keys of the columns or cells, under
\* each key its blocks (with their style in week mode) and its "+n more"
\* count, and the meeting in the detail modal.  The today marks and the now
\* lines of the same render are isToday and NowIndicator above.
RenderWith(clock, windowCursor, md, tz, ms, sel) ==
    LET keys == Listed(WindowKeys(windowCursor, md, tz))
    IN  [keys |-> keys,
         cells |-> [key \in Range(keys) |->
                      IF md = "week" THEN Listed(WeekColumn(ms, key)) ELSE MonthCell(ms, key)],
         more |-> [key \in Range(keys) |-> IF md = "week" THEN 0 ELSE MoreCount(ms, key)],
         modal |-> sel]

\* variant: the window is laid out around today, not around the cursor
Render_WindowAroundToday(clock, cur, md, tz, ms, sel) ==
    RenderWith(clock, TodayCursor(clock), md, tz, ms, sel)

\* the component's return value
Render(clock, cur, md, tz, ms, sel) == RenderWith(clock, cur, md, tz, ms, sel)

-----------------------------------------------------------------------------
\* The environment: meetings snapshots the parent can supply

Mtg(id, date, startTime, durationMinutes) ==
    [id |-> id, date |-> date, startTime |-> startTime, durationMinutes |-> durationMinutes]

Snapshots ==
    {      <<Mtg("m1", "2025-03-10", "09:30", 60),
        Mtg("m5", "2024-12-31", "10:15", 45),
        Mtg("m6", "2025-3-10", "09:30", 60),
        Mtg("m8", "2024-02-29", "00:05", 15)>>,
      <<Mtg("m2", "2025-03-10", "07:00", 30),
        Mtg("m1", "2025-03-10", "09:30", 60),
        Mtg("m3", "2025-03-10", "23:30", 90),
        Mtg("m4", "2025-03-10", "08:00", 60),
        Mtg("m7", "2025-02-01", "12:00", 60)>> }

\* days (UTC) on which the runtime is started: 2024-02-28 (leap year),
\* 2024-12-30 (Monday before the year's end), 2025-01-31 (last of a 31-day
\* month), 2025-03-09 (Sunday)
StartDays ==
    { DaysFromCivil(2024, 2, 28), DaysFromCivil(2024, 12, 30),
      DaysFromCivil(2025, 1, 31), DaysFromCivil(2025, 3, 9) }

-----------------------------------------------------------------------------
\* App.tsx: the component around the views.  Its state and that of its
\* collaborators is the record app:
\*   useZoomApi         USE_ZOOM_API, fixed by the build (VITE_USE_ZOOM_API)
\*   view               useState<ViewState>
\*   editingMeetingId   useState<string | null>, None for null
\*   isCreatingMeeting  useState(false)
\*   form               formData of the mounted BookingForm, NoForm when unmounted
\*   storage            the stored collection (localStorage, key jci_meetings_data)
\*   pc                 where handleBookingSubmit is: "idle", "zoom", "store"
\*   job                what the running handleBookingSubmit holds, NoJob when idle
\*   zoomCalls          the calls of the zoomService functions, in order
\*   alerts             number of alert() dialogs shown
\*   submits            number of form submissions so far
\*   hourCycle          the hour cycle of the engine the app runs on
\*   zoom               the meetings the Zoom account lists (ZoomMeetingRaw)
\*   from, to           RecordingsPage's useState of the two date inputs
\*   supabase           isSupabaseConfigured(): storage is the Supabase table
\*                      meetings, else the collection in localStorage
\*   del                the running handleDelete: its pc ("zoom", "store"), the id
\*                      and whether the catch of the Zoom deletion ran; with pc
\*                      "done" the last completed one; NoDelete before the first
\*   sync               the running syncMeetingsFromZoom (pc "list") and the
\*                      collection local it has read; NoSync when none runs
\*   listed             how the last call of listZoomMeetings ended: "rejected",
\*                      "error", "ok"; None before the first
\*   syncs, deletes     number of syncs and of deletions started so far
\* The variable meetings is App's useState<Meeting[]>, handed to the views.

\* null, undefined and '' of a string-valued field
None == ""

NoForm == <<>>

NoJob == <<>>

\* a Meeting with the fields the booking flow reads and writes
Meeting(id, title, date, startTime, durationMinutes, zoomLink, zoomMeetingId) ==
    [id |-> id, title |-> title, date |-> date, startTime |-> startTime,
     durationMinutes |-> durationMinutes, zoomLink |-> zoomLink,
     zoomMeetingId |-> zoomMeetingId]

\* a ZoomMeetingRaw; id stands for String(z.id)
ZoomMeetingRaw(id, topic, start_time, duration, join_url) ==
    [id |-> id, topic |-> topic, start_time |-> start_time, duration |-> duration,
     join_url |-> join_url]

\* storageService.ts zoomToMeeting(z), on an engine with hour cycle hc
zoomToMeeting(z, hc) ==
    With(utcToAppTz(z.start_time, hc), LAMBDA at :
        Meeting("zoom-" \o z.id, IF z.topic = None THEN "Untitled" ELSE z.topic, at.date,
                at.startTime, IF z.duration = 0 THEN 60 ELSE z.duration, z.join_url, z.id))

BookingFormData(title, description, date, startTime, durationMinutes, manualZoomLink) ==
    [title |-> title, description |-> description, date |-> date,
     startTime |-> startTime, durationMinutes |-> durationMinutes,
     manualZoomLink |-> manualZoomLink]

\* useState<BookingFormData> of a freshly mounted BookingForm
InitialFormData(clock) == BookingFormData("", "", getTodayInAppTz(clock), "19:00", 60, "")

\* the useEffect that fills the form from editingMeeting (the model's Meeting
\* keeps no description: it reads as '')
FormDataOf(m) ==
    BookingFormData(m.title, "", m.date, m.startTime, m.durationMinutes, m.zoomLink)

\* meetings.find(m => m.id === id): <<the first such meeting>>, or <<>> for undefined
Find(ms, id) ==
    LET hits == SelectSeq(ms, LAMBDA m : m.id = id)
    IN  IF hits = <<>> THEN <<>> ELSE <<hits[1]>>

\* the formData a BookingForm has after mounting with the given editingMeeting
MountedForm(clock, ms, editingId) ==
    LET editingMeeting == IF editingId = None THEN <<>> ELSE Find(ms, editingId)
    IN  IF editingMeeting = <<>> THEN InitialFormData(clock) ELSE FormDataOf(editingMeeting[1])

\* !finalZoomLink || finalZoomLink.trim() === ''
NoManualLink(link) == link = None

\* a call of createZoomMeeting(topic, date, startTime, durationMinutes, agenda):
\* the arguments as the parameters receive them, and whether the request was sent
CreateCall(topic, date, startTime, durationMinutes, agenda, sent) ==
    [fn |-> "createZoomMeeting", meetingId |-> None, topic |-> topic, date |-> date,
     startTime |-> startTime, durationMinutes |-> durationMinutes, agenda |-> agenda,
     sent |-> sent]

\* a call of updateZoomMeeting(meetingId, topic, date, startTime, durationMinutes, agenda)
UpdateCall(meetingId, topic, date, startTime, durationMinutes, agenda, sent) ==
    [fn |-> "updateZoomMeeting", meetingId |-> meetingId, topic |-> topic, date |-> date,
     startTime |-> startTime, durationMinutes |-> durationMinutes, agenda |-> agenda,
     sent |-> sent]

\* the call handleBookingSubmit makes to create the Zoom meeting: four
\* arguments, bound to the first four parameters in order
createZoomMeeting(data, useZoomApi) ==
    CreateCall(data.title, data.date \o "T" \o data.startTime, data.durationMinutes,
               data.description, None, useZoomApi)

\* the call handleBookingSubmit makes to update the Zoom meeting: five
\* arguments, bound to the first five parameters in order
updateZoomMeeting(zoomMeetingId, data, useZoomApi) ==
    UpdateCall(zoomMeetingId, data.title, data.date \o "T" \o data.startTime,
               data.durationMinutes, data.description, None, useZoomApi)

\* the Zoom meeting id and join URL the n-th created meeting gets
NewZoomId(n) == ToString(900 + n)

JoinUrl(zoomId) == "https://zoom.us/j/" \o zoomId

\* saveMeeting: [...current, meeting]
saveMeeting(stored, meeting) == Append(stored, meeting)

\* updateMeeting: current.map(m => m.id === id ? updatedMeeting : m)
updateMeeting(stored, id, updatedMeeting) ==
    LET mapped[i \in 0..Len(stored)] ==
            IF i = 0 THEN <<>>
            ELSE Append(mapped[i - 1], IF stored[i].id = id THEN updatedMeeting ELSE stored[i])
    IN  mapped[Len(stored)]

\* deleteMeeting: current.filter(m => m.id !== id)
deleteMeeting(stored, id) == SelectSeq(stored, LAMBDA m : m.id # id)

\* supabase upsert of one row: the row with the same id is replaced, a row
\* with a new id is added
UpsertRow(table, row) ==
    IF \E i \in 1..Len(table) : table[i].id = row.id
    THEN updateMeeting(table, row.id, row)
    ELSE Append(table, row)

\* upsertMeetingsAsync(meetings): upsert(rows)
RECURSIVE upsertMeetings(_, _)
upsertMeetings(table, rows) ==
    IF rows = <<>> THEN table
    ELSE With(UpsertRow(table, rows[1]), LAMBDA t : upsertMeetings(t, SubSeq(rows, 2, Len(rows))))

\* the key of .order('date').order('start_time'), for well-formed dates and times
RowKey(m) ==
    LET hm == Split(m.startTime, ":")
    IN  <<Number(SubSeq(m.date, 1, 4)), Number(SubSeq(m.date, 6, 7)), Number(SubSeq(m.date, 9, 10)),
          Number(hm[1]), Number(hm[2])>>

\* the first key is smaller than the second, or equal to it
RECURSIVE KeyLeq(_, _)
KeyLeq(a, b) ==
    IF a = <<>> THEN TRUE
    ELSE IF a[1] # b[1] THEN a[1] < b[1]
    ELSE KeyLeq(SubSeq(a, 2, Len(a)), SubSeq(b, 2, Len(b)))

\* getMeetingsAsync(): the rows in the order of date and start_time; rows
\* with the same date and start_time come in any order
SelectOrdered(table) ==
    { [i \in 1..Len(table) |-> table[perm[i]]] : perm \in
        { q \in Permutations(1..Len(table)) :
            \A i \in 1..(Len(table) - 1) : KeyLeq(RowKey(table[q[i]]), RowKey(table[q[i + 1]])) } }

\* loadMeetings(): what it can return
loadMeetings(supabase, stored) ==
    IF supabase THEN {Listed(rows) : rows \in SelectOrdered(stored)} ELSE {stored}

\* the local meetings without a zoomMeetingId, in their order
localManual(local) == SelectSeq(local, LAMBDA m : m.zoomMeetingId = None)

\* localByZoomId.get(zid): <<the last local meeting with that zoomMeetingId>>,
\* or <<>>
localByZoomId(local, zid) ==
    LET hits == SelectSeq(local, LAMBDA m : m.zoomMeetingId = zid)
    IN  IF hits = <<>> THEN <<>> ELSE <<hits[Len(hits)]>>

\* the entry merged gets for the Zoom meeting z: the local meeting of its id
\* with Zoom's title, link, date, start time and duration, or fromZoom
MergedEntry(local, z, hc) ==
    LET existing == localByZoomId(local, z.id)
    IN  With(zoomToMeeting(z, hc), LAMBDA fromZoom :
            IF existing # <<>>
            THEN Meeting(existing[1].id, fromZoom.title, fromZoom.date, fromZoom.startTime,
                         fromZoom.durationMinutes, fromZoom.zoomLink, z.id)
            ELSE fromZoom)

\* merged, before it is sorted
merged(local, zoomList, hc) ==
    localManual(local) \o [i \in 1..Len(zoomList) |-> MergedEntry(local, zoomList[i], hc)]

\* Array.from(new Map(merged.map(m => [m.id, m])).values()): an id keeps the
\* place of its first entry and gets the value of its last
deduped(ms) ==
    LET firsts == {i \in 1..Len(ms) : \A j \in 1..(i - 1) : ms[j].id # ms[i].id}
        last(i) == CHOOSE k \in 1..Len(ms) :
                       ms[k].id = ms[i].id /\ \A j \in (k + 1)..Len(ms) : ms[j].id # ms[i].id
        kept[i \in 0..Len(ms)] ==
            IF i = 0 THEN <<>>
            ELSE IF i \in firsts THEN Append(kept[i - 1], ms[last(i)]) ELSE kept[i - 1]
    IN  kept[Len(ms)]

\* what syncMeetingsFromZoom returns for a non-empty zoomList: merged, sorted
\* by start with the comparator the list view has, and deduplicated by id
syncResult(local, zoomList, hc) ==
    With(Listed(merged(local, zoomList, hc)), LAMBDA all :
        With(sorted(all), LAMBDA inOrder : deduped(inOrder)))

\* { id: editingMeetingId, ...data, zoomLink: finalZoomLink }
UpdatedMeeting(id, data, finalZoomLink) ==
    Meeting(id, data.title, data.date, data.startTime, data.durationMinutes, finalZoomLink, None)

\* { id: Date.now().toString(), ...data, zoomLink: finalZoomLink, zoomMeetingId }
NewMeeting(clock, data, finalZoomLink, zoomMeetingId) ==
    Meeting(ToString(clock), data.title, data.date, data.startTime, data.durationMinutes,
            finalZoomLink, zoomMeetingId)

NoDelete == [pc |-> "idle", id |-> None, caught |-> FALSE]

NoSync == [pc |-> "idle", local |-> <<>>]

\* App's state while no submission is under way and no form is mounted
AppState(useZoomApi, view, stored) ==
    [useZoomApi |-> useZoomApi, view |-> view, editingMeetingId |-> None,
     isCreatingMeeting |-> FALSE, form |-> NoForm, storage |-> stored, pc |-> "idle",
     job |-> NoJob, zoomCalls |-> <<>>, alerts |-> 0, submits |-> 0,
     hourCycle |-> "h23", zoom |-> <<>>, from |-> None, to |-> None,
     supabase |-> FALSE, del |-> NoDelete, sync |-> NoSync, listed |-> None, syncs |-> 0,
     deletes |-> 0]

\* what a running handleBookingSubmit holds: the submitted data, the
\* editingMeetingId and existingMeeting?.zoomLink of its render, and the
\* finalZoomLink and zoomMeetingId it has so far
Job(data, editingId, existingLink, finalZoomLink, zoomMeetingId) ==
    [data |-> data, editingId |-> editingId, existingLink |-> existingLink,
     finalZoomLink |-> finalZoomLink, zoomMeetingId |-> zoomMeetingId]

-----------------------------------------------------------------------------
\* The view as a state machine

\* state after the first render: useState initialisers.  The parent is the
\* environment here: its own state is held fixed and it supplies snapshots
Init ==
    /\ now \in {MakeDate(day, ClockFirstHour * 60) : day \in StartDays}
    /\ tzOffset \in LocalOffsets
    /\ meetings \in Snapshots
    /\ mode = "week"
    /\ currentDate = TodayCursor(now)
    /\ refDate = TodayCursor(now)
    /\ selectedMeeting = NoMeeting
    /\ navCount = 0
    /\ emitted = <<>>
    /\ app = AppState(TRUE, "SCHEDULE", <<>>)

\* the detail modal is not shown; while it is, its backdrop (fixed inset-0
\* z-50) covers the header controls and the grid, and a click closes it
ModalClosed == selectedMeeting = NoMeeting

\* time passes on the runtime's clock
Tick ==
    /\ TimeWithinDay(now) + ClockStep <= ClockLastHour * 60
    /\ now' = now + ClockStep
    /\ emitted' = <<>>
    /\ UNCHANGED <<tzOffset, mode, currentDate, selectedMeeting, meetings, refDate, navCount, app>>

\* onClick of the Previous / Next buttons
Navigate(delta) ==
    /\ ModalClosed
    /\ navCount < MaxNav
    /\ navCount' = navCount + 1
    /\ currentDate' = navigate(currentDate, mode, delta, tzOffset)
    /\ refDate' = navigate(refDate, mode, delta, APP_TZ_OFFSET)
    /\ emitted' = <<>>
    /\ UNCHANGED <<now, tzOffset, mode, selectedMeeting, meetings, app>>

\* onClick of the Today button
GoToToday ==
    /\ ModalClosed
    /\ currentDate' = TodayCursor(now)
    /\ refDate' = TodayCursor(now)
    /\ navCount' = 0
    /\ emitted' = <<>>
    /\ UNCHANGED <<now, tzOffset, mode, selectedMeeting, meetings, app>>

\* variant: switching the mode also puts the cursor back on today
SwitchMode_ResetsCursor(m) ==
    /\ ModalClosed
    /\ mode' = m
    /\ currentDate' = IF m = mode THEN currentDate ELSE TodayCursor(now)
    /\ refDate' = IF m = mode THEN refDate ELSE TodayCursor(now)
    /\ emitted' = <<>>
    /\ UNCHANGED <<now, tzOffset, selectedMeeting, meetings, navCount, app>>

\* onClick of a mode button: setMode(m)
SwitchMode(m) ==
    /\ ModalClosed
    /\ mode' = m
    /\ emitted' = <<>>
    /\ UNCHANGED <<now, tzOffset, currentDate, selectedMeeting, meetings, refDate, navCount, app>>

\* the meetings that have a block on the screen
OnScreen ==
    UNION {Range(Drawn(meetings, mode, key)) :
              key \in Range(WindowKeys(currentDate, mode, tzOffset))}

\* onClick of the block of a meeting m on the screen: setSelectedMeeting(meeting)
SelectMeeting(m) ==
    /\ ModalClosed
    /\ selectedMeeting' = <<m>>
    /\ emitted' = <<>>
    /\ UNCHANGED <<now, tzOffset, mode, currentDate, meetings, refDate, navCount, app>>

\* onClick of the modal's backdrop or close button: setSelectedMeeting(null)
ClearSelection ==
    /\ selectedMeeting # NoMeeting
    /\ selectedMeeting' = NoMeeting
    /\ emitted' = <<>>
    /\ UNCHANGED <<now, tzOffset, mode, currentDate, meetings, refDate, navCount, app>>

\* variant: the view drops the deleted meeting from what it shows at once
PressDelete_Optimistic ==
    /\ selectedMeeting # NoMeeting
    /\ emitted' = <<[fn |-> "onDelete", id |-> selectedMeeting[1].id]>>
    /\ meetings' = SelectSeq(meetings, LAMBDA m : m.id # selectedMeeting[1].id)
    /\ selectedMeeting' = NoMeeting
    /\ UNCHANGED <<now, tzOffset, mode, currentDate, refDate, navCount, app>>

\* MeetingCard's delete button in the detail modal:
\* onDelete={(id) => { onDelete(id); setSelectedMeeting(null); }}
PressDelete ==
    /\ selectedMeeting # NoMeeting
    /\ emitted' = <<[fn |-> "onDelete", id |-> selectedMeeting[1].id]>>
    /\ selectedMeeting' = NoMeeting
    /\ UNCHANGED <<now, tzOffset, mode, currentDate, meetings, refDate, navCount, app>>

\* MeetingCard's edit button in the detail modal (App hands an onEdit in):
\* onEdit={(id) => { onEdit(id); setSelectedMeeting(null); }}
PressEdit ==
    /\ selectedMeeting # NoMeeting
    /\ emitted' = <<[fn |-> "onEdit", id |-> selectedMeeting[1].id]>>
    /\ selectedMeeting' = NoMeeting
    /\ UNCHANGED <<now, tzOffset, mode, currentDate, meetings, refDate, navCount, app>>

\* the parent re-renders the view with another snapshot
ReceiveMeetings(ms) ==
    /\ ms # meetings
    /\ meetings' = ms
    /\ emitted' = <<>>
    /\ UNCHANGED <<now, tzOffset, mode, currentDate, selectedMeeting, refDate, navCount, app>>

Next ==
    \/ Tick
    \/ \E delta \in Deltas : Navigate(delta)
    \/ GoToToday
    \/ \E m \in {"week", "month"} : SwitchMode(m)
    \/ \E m \in OnScreen : SelectMeeting(m)
    \/ ClearSelection
    \/ PressDelete
    \/ PressEdit
    \/ \E ms \in Snapshots : ReceiveMeetings(ms)

Spec == Init /\ [][Next]_vars

-----------------------------------------------------------------------------
\* The week of 2025-03-10 on a runtime in the app zone, showing one meeting
\* of that day whose start time ranges over the minutes of the day

ProbeMeeting(h, m) == Mtg("m1", "2025-03-10", formatStartTime(h, m), 60)

GeomInit ==
    /\ now = MakeDate(DaysFromCivil(2025, 3, 10), 0)
    /\ tzOffset = APP_TZ_OFFSET
    /\ \E h \in 0..23, m \in 0..59 : meetings = <<ProbeMeeting(h, m)>>
    /\ mode = "week"
    /\ currentDate = TodayCursor(now)
    /\ refDate = TodayCursor(now)
    /\ selectedMeeting = NoMeeting
    /\ navCount = 0
    /\ emitted = <<>>
    /\ app = AppState(TRUE, "SCHEDULE", <<>>)

\* the parent supplies the snapshot in which the meeting starts a minute later
GeomNext ==
    LET hm == ParseStartTime(meetings[1].startTime)
        t == hm.hours * 60 + hm.minutes + 1
    IN  /\ t < 24 * 60
        /\ ReceiveMeetings(<<ProbeMeeting(t \div 60, t % 60)>>)

GeomSpec == GeomInit /\ [][GeomNext]_vars

-----------------------------------------------------------------------------
\* The list view, fed by a parent that books one meeting after the other

\* the meetings that can be booked: two of 2025-05-01 at 09:00 (a tie), one
\* earlier that day, one late on the day before, and two around a year's end
ListPool ==
    { Mtg("a", "2025-05-01", "09:00", 60), Mtg("b", "2025-05-01", "08:00", 60),
      Mtg("c", "2025-04-30", "23:59", 30), Mtg("d", "2025-05-01", "09:00", 45),
      Mtg("e", "2025-01-01", "00:00", 60), Mtg("f", "2024-12-31", "10:00", 90) }

ListInit ==
    /\ now = MakeDate(DaysFromCivil(2025, 4, 30), ClockFirstHour * 60)
    /\ tzOffset = APP_TZ_OFFSET
    /\ meetings = <<>>
    /\ mode = "week"
    /\ currentDate = TodayCursor(now)
    /\ refDate = TodayCursor(now)
    /\ selectedMeeting = NoMeeting
    /\ navCount = 0
    /\ emitted = <<>>
    /\ app = AppState(TRUE, "SCHEDULE", <<>>)

\* the parent supplies the snapshot with one more meeting at its end
ListNext ==
    /\ Len(meetings) < MaxListLen
    /\ \E m \in ListPool :
          /\ m \notin Range(meetings)
          /\ ReceiveMeetings(Append(meetings, m))

ListSpec == ListInit /\ [][ListNext]_vars

-----------------------------------------------------------------------------
\* App.tsx with its booking form: the views are changed, a meeting is taken
\* into the form, the form is edited, cancelled and submitted

\* what the user types into the form: handleChange of the title, date and
\* startTime inputs (the Zoom Link input is readOnly and takes no typing)
FormInputs ==
    { <<"title", "Board">>, <<"date", "2025-03-12">>, <<"startTime", "20:00">> }

\* the stored collections the app is started on: an empty one; one with a
\* meeting created through the Zoom API and a meeting synced from Zoom
\* whose list entry had no join_url; one with a meeting whose link was
\* stored by hand
StoredCollections ==
    { <<>>,
      << Meeting("z1", "Kickoff", "2025-03-10", "19:00", 60, JoinUrl("111"), "111"),
         Meeting("zoom-222", "Training", "2025-03-11", "18:00", 45, None, "222") >>,
      << Meeting("m3", "Townhall", "2025-03-10", "10:00", 30, "https://zoom.us/j/manual", None) >> }

Views == {"DASHBOARD", "SCHEDULE", "BOOKING"}

\* the formData after a change to the given view: BookingForm is mounted,
\* afresh, on entering the BOOKING view and unmounted on leaving it
FormAfter(view, editingId) ==
    IF view = "BOOKING" THEN MountedForm(now, meetings, editingId) ELSE NoForm

\* Header's onChangeView and the buttons that call setView(v)
ChangeView(v) ==
    /\ v # app.view
    /\ app' = [app EXCEPT !.view = v, !.form = FormAfter(v, app.editingMeetingId)]
    /\ emitted' = <<>>
    /\ UNCHANGED <<now, tzOffset, mode, currentDate, selectedMeeting, meetings, refDate, navCount>>

\* handleEdit(id), called by a MeetingCard of the dashboard or of the schedule
handleEdit(id) ==
    /\ app.view \in {"DASHBOARD", "SCHEDULE"}
    /\ Find(meetings, id) # <<>>
    /\ app' = [app EXCEPT !.editingMeetingId = id, !.view = "BOOKING",
                          !.form = MountedForm(now, meetings, id)]
    /\ emitted' = <<>>
    /\ UNCHANGED <<now, tzOffset, mode, currentDate, selectedMeeting, meetings, refDate, navCount>>

\* handleChange: setFormData(prev => ({ ...prev, [name]: value }))
handleChange(name, value) ==
    /\ app.form # NoForm
    /\ app.form[name] # value
    /\ app' = [app EXCEPT !.form = [app.form EXCEPT ![name] = value]]
    /\ emitted' = <<>>
    /\ UNCHANGED <<now, tzOffset, mode, currentDate, selectedMeeting, meetings, refDate, navCount>>

\* BookingForm's onCancel: setEditingMeetingId(null); setView(DASHBOARD)
Cancel ==
    /\ app.form # NoForm
    /\ app' = [app EXCEPT !.editingMeetingId = None, !.view = "DASHBOARD", !.form = NoForm]
    /\ emitted' = <<>>
    /\ UNCHANGED <<now, tzOffset, mode, currentDate, selectedMeeting, meetings, refDate, navCount>>

\* handleBookingSubmit(data) up to its first await, in the edit branch
SubmitEdit(data) ==
    LET existingMeeting == Find(meetings, app.editingMeetingId)
        existingLink == IF existingMeeting = <<>> THEN None ELSE existingMeeting[1].zoomLink
        zoomMeetingId == IF existingMeeting = <<>> THEN None ELSE existingMeeting[1].zoomMeetingId
        call == updateZoomMeeting(zoomMeetingId, data, app.useZoomApi)
        job(link) == Job(data, app.editingMeetingId, existingLink, link, None)
    IN  IF ~NoManualLink(data.manualZoomLink)
        THEN [app EXCEPT !.isCreatingMeeting = TRUE, !.submits = @ + 1, !.pc = "store",
                         !.job = job(data.manualZoomLink)]
        ELSE IF zoomMeetingId = None
        THEN [app EXCEPT !.isCreatingMeeting = TRUE, !.submits = @ + 1, !.pc = "store",
                         !.job = job(existingLink)]
        ELSE IF ~app.useZoomApi
        THEN \* updateZoomMeeting throws, the inner catch keeps the existing link
             [app EXCEPT !.isCreatingMeeting = TRUE, !.submits = @ + 1, !.pc = "store",
                         !.job = job(existingLink), !.zoomCalls = Append(@, call)]
        ELSE [app EXCEPT !.isCreatingMeeting = TRUE, !.submits = @ + 1, !.pc = "zoom",
                         !.job = job(None), !.zoomCalls = Append(@, call)]

\* handleBookingSubmit(data) up to its first await, in the create branch
SubmitCreate(data) ==
    LET call == createZoomMeeting(data, app.useZoomApi)
    IN  IF ~NoManualLink(data.manualZoomLink)
        THEN [app EXCEPT !.isCreatingMeeting = TRUE, !.submits = @ + 1, !.pc = "store",
                         !.job = Job(data, None, None, data.manualZoomLink, None)]
        ELSE IF ~app.useZoomApi
        THEN \* createZoomMeeting throws, the inner catch throws it on, the outer
             \* catch alerts and finally resets isCreatingMeeting
             [app EXCEPT !.submits = @ + 1, !.zoomCalls = Append(@, call), !.alerts = @ + 1]
        ELSE [app EXCEPT !.isCreatingMeeting = TRUE, !.submits = @ + 1, !.pc = "zoom",
                         !.job = Job(data, None, None, None, None),
                         !.zoomCalls = Append(@, call)]

\* the form is submitted: its submit button is disabled while isSubmitting
\* and its title input is required.  The clock has moved on since the last
\* submission (Date.now() names the new meeting)
Submit ==
    /\ app.form # NoForm
    /\ ~app.isCreatingMeeting
    /\ app.form.title # ""
    /\ app.submits < MaxSubmits
    /\ now' = now + 1
    /\ app' = IF app.editingMeetingId # None THEN SubmitEdit(app.form) ELSE SubmitCreate(app.form)
    /\ emitted' = <<>>
    /\ UNCHANGED <<tzOffset, mode, currentDate, selectedMeeting, meetings, refDate, navCount>>

\* the request to the Zoom API is answered, or fails
ZoomResponds(ok) ==
    /\ app.pc = "zoom"
    /\ app' =
          IF app.job.editingId # None
          THEN \* zoomData.joinUrl, or the existing link kept by the inner catch
               LET call == app.zoomCalls[Len(app.zoomCalls)]
               IN  [app EXCEPT !.pc = "store",
                               !.job.finalZoomLink =
                                   IF ok THEN JoinUrl(call.meetingId) ELSE app.job.existingLink]
          ELSE IF ok
          THEN LET zoomId == NewZoomId(Len(app.zoomCalls))
               IN  [app EXCEPT !.pc = "store", !.job.finalZoomLink = JoinUrl(zoomId),
                               !.job.zoomMeetingId = zoomId]
          ELSE [app EXCEPT !.pc = "idle", !.job = NoJob, !.alerts = @ + 1,
                           !.isCreatingMeeting = FALSE]
    /\ emitted' = <<>>
    /\ UNCHANGED <<now, tzOffset, mode, currentDate, selectedMeeting, meetings, refDate, navCount>>

\* the rest of handleBookingSubmit: updateMeeting or saveMeeting,
\* refreshMeetings, setView(SCHEDULE), and finally setIsCreatingMeeting(false)
Store ==
    /\ app.pc = "store"
    /\ LET job == app.job
           stored ==
               IF job.editingId # None
               THEN updateMeeting(app.storage, job.editingId,
                                  UpdatedMeeting(job.editingId, job.data, job.finalZoomLink))
               ELSE saveMeeting(app.storage,
                                NewMeeting(now, job.data, job.finalZoomLink, job.zoomMeetingId))
       IN  /\ app' = [app EXCEPT !.storage = stored, !.pc = "idle", !.job = NoJob,
                                 !.editingMeetingId = IF job.editingId # None THEN None ELSE @,
                                 !.view = "SCHEDULE", !.form = NoForm,
                                 !.isCreatingMeeting = FALSE]
           /\ meetings' \in loadMeetings(app.supabase, stored)
    /\ emitted' = <<>>
    /\ UNCHANGED <<now, tzOffset, mode, currentDate, selectedMeeting, refDate, navCount>>

\* App is mounted on a stored collection, which its first refreshMeetings
\* has loaded, with the Zoom API enabled or disabled by the build
BookInit ==
    /\ now = MakeDate(DaysFromCivil(2025, 3, 10), ClockFirstHour * 60)
    /\ tzOffset = APP_TZ_OFFSET
    /\ mode = "week"
    /\ currentDate = TodayCursor(now)
    /\ refDate = TodayCursor(now)
    /\ selectedMeeting = NoMeeting
    /\ navCount = 0
    /\ emitted = <<>>
    /\ \E useZoomApi \in BOOLEAN, stored \in StoredCollections :
          /\ app = AppState(useZoomApi, "DASHBOARD", stored)
          /\ meetings = stored

BookNext ==
    \/ \E v \in Views : ChangeView(v)
    \/ \E id \in {m.id : m \in Range(meetings)} : handleEdit(id)
    \/ \E input \in FormInputs : handleChange(input[1], input[2])
    \/ Cancel
    \/ Submit
    \/ \E ok \in BOOLEAN : ZoomResponds(ok)
    \/ Store

BookingSpec == BookInit /\ [][BookNext]_vars

-----------------------------------------------------------------------------
\* App.tsx with the storage and Zoom services: the meetings of the stored
\* collection, booked through Zoom, synced from Zoom or entered with a link,
\* are edited and deleted while the collection is synced from Zoom

\* what a fetch of /api/zoom/meetings/:id with method DELETE can end with:
\* a response with one of these statuses, or no response (the fetch rejects)
DeleteStatuses == {200, 204, 404, 500}

NoResponse == 0

\* deleteZoomMeeting throws: the fetch rejected, or
\* !response.ok && response.status !== 204 && response.status !== 404
deleteZoomMeetingThrows(status) ==
    \/ status = NoResponse
    \/ status \notin 200..299 /\ status # 204 /\ status # 404

\* netlify/functions/zoom-meeting.ts, method DELETE: the status it answers
\* with when Zoom's API answers with zoomStatus
zoomMeetingDELETE(zoomStatus) ==
    IF zoomStatus \notin 200..299 /\ zoomStatus # 204 /\ zoomStatus # 404
    THEN zoomStatus
    ELSE 204

\* the Zoom meetings a list call can report: one known to the store, the
\* same one moved to another time, one that is new to the store
Zoom111 == ZoomMeetingRaw("111", "Kickoff", "2025-03-10T11:00:00Z", 60, JoinUrl("111"))

Zoom111Late == ZoomMeetingRaw("111", "Kickoff", "2025-03-12T11:00:00Z", 60, JoinUrl("111"))

Zoom222 == ZoomMeetingRaw("222", "Training", "2025-03-11T10:00:00Z", 45, JoinUrl("222"))

Zoom333 == ZoomMeetingRaw("333", "Gala", "2025-03-11T12:00:00Z", 120, JoinUrl("333"))

\* how a call of listZoomMeetings can end: the fetch rejects, the response
\* is not ok, or it is ok with a list in data.meetings
ZoomAnswers ==
    { [kind |-> "rejected", list |-> <<>>], [kind |-> "error", list |-> <<>>],
      [kind |-> "ok", list |-> <<>>],
      [kind |-> "ok", list |-> <<Zoom111, Zoom222>>],
      [kind |-> "ok", list |-> <<Zoom111, Zoom333, Zoom111Late>>],
      [kind |-> "ok", list |-> <<Zoom333>>] }

\* handleDelete(id) with window.confirm answered by OK, up to its first await
handleDelete(id) ==
    /\ app.view \in {"DASHBOARD", "SCHEDULE"}
    /\ app.del.pc \in {"idle", "done"}
    /\ app.deletes < MaxDeletes
    /\ LET meeting == Find(meetings, id)
           viaZoom == meeting # <<>> /\ meeting[1].zoomMeetingId # None /\ app.useZoomApi
       IN  /\ meeting # <<>>
           /\ app' = [app EXCEPT !.deletes = @ + 1,
                                 !.del = [pc |-> IF viaZoom THEN "zoom" ELSE "store", id |-> id,
                                          caught |-> FALSE]]
    /\ emitted' = <<>>
    /\ UNCHANGED <<now, tzOffset, mode, currentDate, selectedMeeting, meetings, refDate, navCount>>

\* variant: a Zoom deletion that throws ends handleDelete
ZoomDeleteResponds_Aborts(status) ==
    /\ app.del.pc = "zoom"
    /\ app' = IF deleteZoomMeetingThrows(status)
              THEN [app EXCEPT !.del.pc = "done", !.del.caught = TRUE]
              ELSE [app EXCEPT !.del.pc = "store"]
    /\ emitted' = <<>>
    /\ UNCHANGED <<now, tzOffset, mode, currentDate, selectedMeeting, meetings, refDate, navCount>>

\* the DELETE request is answered, or gets no response: what deleteZoomMeeting
\* throws is caught and handleDelete goes on
ZoomDeleteResponds(status) ==
    /\ app.del.pc = "zoom"
    /\ app' = [app EXCEPT !.del.pc = "store", !.del.caught = deleteZoomMeetingThrows(status)]
    /\ emitted' = <<>>
    /\ UNCHANGED <<now, tzOffset, mode, currentDate, selectedMeeting, meetings, refDate, navCount>>

\* the rest of handleDelete: deleteMeeting(id) and refreshMeetings()
DeleteStore ==
    /\ app.del.pc = "store"
    /\ LET stored == deleteMeeting(app.storage, app.del.id)
       IN  /\ app' = [app EXCEPT !.storage = stored, !.del.pc = "done"]
           /\ meetings' \in loadMeetings(app.supabase, stored)
    /\ emitted' = <<>>
    /\ UNCHANGED <<now, tzOffset, mode, currentDate, selectedMeeting, refDate, navCount>>

\* syncMeetingsFromZoom() is called by handleSyncFromZoom or by the mount
\* effect, and runs up to the fetch of listZoomMeetings: it reads the stored
\* collection; with the Zoom API disabled the list is [] at once and the
\* collection read is returned and displayed
\* in local mode updateMeeting and deleteMeeting write localStorage without
\* an await before the write, in the task that reached the call: no other
\* handler or response runs between that point and the write
InLocalWrite == ~app.supabase /\ (app.pc = "store" \/ app.del.pc = "store")

SyncStart ==
    /\ app.sync.pc = "idle"
    /\ ~InLocalWrite
    /\ app.syncs < MaxSyncs
    /\ \E local \in loadMeetings(app.supabase, app.storage) :
          IF app.useZoomApi
          THEN /\ app' = [app EXCEPT !.syncs = @ + 1, !.sync = [pc |-> "list", local |-> local]]
               /\ meetings' = meetings
          ELSE /\ app' = [app EXCEPT !.syncs = @ + 1, !.listed = "ok", !.zoom = <<>>]
               /\ meetings' = local
    /\ emitted' = <<>>
    /\ UNCHANGED <<now, tzOffset, mode, currentDate, selectedMeeting, refDate, navCount>>

\* the list request ends and syncMeetingsFromZoom runs to its end: a rejected
\* fetch makes it throw; a response that is not ok or has no meetings makes
\* it return the collection it has read; else it merges, persists and
\* returns the merged list.  What it returns is displayed (setMeetings)
ListResponds(answer) ==
    /\ app.sync.pc = "list"
    /\ ~InLocalWrite
    /\ \E result \in {syncResult(app.sync.local, answer.list, app.hourCycle)} :
       LET local == app.sync.local
       IN  IF answer.kind = "rejected"
           THEN /\ app' = [app EXCEPT !.sync = NoSync, !.listed = answer.kind]
                /\ meetings' = meetings
           ELSE IF answer.kind = "error" \/ answer.list = <<>>
           THEN /\ app' = [app EXCEPT !.sync = NoSync, !.listed = answer.kind, !.zoom = <<>>]
                /\ meetings' = local
           ELSE /\ app' = [app EXCEPT !.sync = NoSync, !.listed = answer.kind,
                                      !.zoom = answer.list,
                                      !.storage = IF app.supabase
                                                  THEN upsertMeetings(@, result)
                                                  ELSE result]
                /\ meetings' = result
    /\ emitted' = <<>>
    /\ UNCHANGED <<now, tzOffset, mode, currentDate, selectedMeeting, refDate, navCount>>

\* App is mounted on a stored collection, in localStorage or in Supabase,
\* which its first refreshMeetings has loaded
SyncInit ==
    /\ now = MakeDate(DaysFromCivil(2025, 3, 10), ClockFirstHour * 60)
    /\ tzOffset = APP_TZ_OFFSET
    /\ mode = "week"
    /\ currentDate = TodayCursor(now)
    /\ refDate = TodayCursor(now)
    /\ selectedMeeting = NoMeeting
    /\ navCount = 0
    /\ emitted = <<>>
    /\ \E useZoomApi \in BOOLEAN, supabase \in BOOLEAN, stored \in StoredCollections :
          /\ app = [AppState(useZoomApi, "SCHEDULE", stored) EXCEPT !.supabase = supabase]
          /\ meetings \in loadMeetings(supabase, stored)

SyncNext ==
    \/ \E id \in {m.id : m \in Range(meetings)} : handleEdit(id)
    \/ handleChange("title", "Board")
    \/ Submit
    \/ \E ok \in BOOLEAN : ZoomResponds(ok)
    \/ Store
    \/ \E id \in {m.id : m \in Range(meetings)} : handleDelete(id)
    \/ \E status \in DeleteStatuses \cup {NoResponse} : ZoomDeleteResponds(status)
    \/ DeleteStore
    \/ SyncStart
    \/ \E answer \in ZoomAnswers : ListResponds(answer)

SyncSpec == SyncInit /\ [][SyncNext]_vars

-----------------------------------------------------------------------------
\* One Zoom meeting, rescheduled over the minutes around the app zone's
\* midnight, at month ends and on a leap day, and taken over by zoomToMeeting

\* the UTC days and minutes of day of the start times (16:00 UTC is midnight
\* in the app zone)
TzDays ==
    { DaysFromCivil(2024, 2, 28), DaysFromCivil(2024, 12, 31), DaysFromCivil(2025, 2, 28),
      DaysFromCivil(2025, 6, 30) }

TzMinutes ==
    { 0, 1, 7 * 60 + 30, 12 * 60, 15 * 60, 15 * 60 + 59, 16 * 60, 16 * 60 + 1, 16 * 60 + 30,
      16 * 60 + 59, 17 * 60, 20 * 60 + 5, 23 * 60 + 59 }

TzInstants == {MakeDate(day, minute) : day \in TzDays, minute \in TzMinutes}

\* the Zoom meeting with its start at the instant t
ZoomAt(t) == ZoomMeetingRaw("111", "Kickoff", toISOString(t), 60, JoinUrl("111"))

TzInit ==
    /\ now = MakeDate(DaysFromCivil(2025, 3, 10), ClockFirstHour * 60)
    /\ tzOffset = APP_TZ_OFFSET
    /\ mode = "week"
    /\ currentDate = TodayCursor(now)
    /\ refDate = TodayCursor(now)
    /\ selectedMeeting = NoMeeting
    /\ navCount = 0
    /\ emitted = <<>>
    /\ meetings = <<>>
    /\ \E hc \in HourCycles : app = [AppState(TRUE, "SCHEDULE", <<>>) EXCEPT !.hourCycle = hc]

\* the meeting is moved to the instant t on Zoom's side and converted
FromZoom(t) ==
    /\ app.zoom # <<ZoomAt(t)>>
    /\ app' = [app EXCEPT !.zoom = <<ZoomAt(t)>>]
    /\ meetings' = <<zoomToMeeting(ZoomAt(t), app.hourCycle)>>
    /\ UNCHANGED <<now, tzOffset, mode, currentDate, selectedMeeting, refDate, navCount, emitted>>

TzNext == \E t \in TzInstants : FromZoom(t)

TzSpec == TzInit /\ [][TzNext]_vars

-----------------------------------------------------------------------------
\* components/RecordingsPage.tsx: the date range is set and searched

getUTCMonth(d) == getMonth(d, 0)

setUTCMonth(d, mo) == setMonth(d, mo, 0)

setUTCDate(d, dt) == setDate(d, dt, 0)

\* d.toISOString().slice(0, 10)
IsoDate(d) == toLocaleDateString(d, 0)

\* a call getAccountRecordings({ from, to, pageSize: 300 })
RecordingsRequest(from, to) == [fn |-> "getAccountRecordings", from |-> from, to |-> to]

\* the while loop of loadRecordings, from cur on: the chunks it pushes
RECURSIVE ChunksFrom(_, _, _)
ChunksFrom(cur, end, toDate) ==
    IF ~(cur <= end) THEN <<>>
    ELSE LET chunkEnd == setUTCDate(setUTCMonth(cur, getUTCMonth(cur) + 1), 0)
             chunk == IF chunkEnd > end
                      THEN RecordingsRequest(IsoDate(cur), toDate)
                      ELSE RecordingsRequest(IsoDate(cur), IsoDate(chunkEnd))
             next == setUTCDate(setUTCMonth(cur, getUTCMonth(cur) + 1), 1)
         IN  <<chunk>> \o ChunksFrom(next, end, toDate)

\* chunks, for the range of the two inputs: cur is fromDate at 00:00 UTC and
\* end is toDate at 23:59 UTC
MonthChunks(fromDate, toDate) ==
    ChunksFrom(NewDate(fromDate \o "T00:00:00Z"), NewDate(toDate \o "T23:59:00Z"), toDate)

\* the dates typed into the inputs: month ends, days 29 to 31 of a January
\* in a leap year and in a common year, and days around the turn of a year
RecDates ==
    { "2024-01-31", "2024-02-29", "2024-12-15", "2024-12-31", "2025-01-01", "2025-01-29",
      "2025-01-30", "2025-01-31", "2025-02-01", "2025-02-28", "2025-03-01", "2025-03-31",
      "2025-04-30", "2025-05-01" }

RecInit ==
    /\ now = MakeDate(DaysFromCivil(2025, 3, 10), ClockFirstHour * 60)
    /\ tzOffset = APP_TZ_OFFSET
    /\ mode = "week"
    /\ currentDate = TodayCursor(now)
    /\ refDate = TodayCursor(now)
    /\ selectedMeeting = NoMeeting
    /\ navCount = 0
    /\ emitted = <<>>
    /\ meetings = <<>>
    /\ app = [AppState(TRUE, "SCHEDULE", <<>>) EXCEPT !.from = "2025-01-31", !.to = "2025-03-01"]

\* onChange of the From input: setFrom(e.target.value)
SetFrom(date) ==
    /\ date # app.from
    /\ app' = [app EXCEPT !.from = date]
    /\ emitted' = <<>>
    /\ UNCHANGED <<now, tzOffset, mode, currentDate, selectedMeeting, meetings, refDate, navCount>>

\* onChange of the To input: setTo(e.target.value)
SetTo(date) ==
    /\ date # app.to
    /\ app' = [app EXCEPT !.to = date]
    /\ emitted' = <<>>
    /\ UNCHANGED <<now, tzOffset, mode, currentDate, selectedMeeting, meetings, refDate, navCount>>

\* handleSearch: loadRecordings() up to its requests, one per chunk
Search ==
    /\ app.useZoomApi
    /\ emitted' = MonthChunks(app.from, app.to)
    /\ UNCHANGED <<now, tzOffset, mode, currentDate, selectedMeeting, meetings, refDate, navCount, app>>

RecNext ==
    \/ \E date \in RecDates : SetFrom(date)
    \/ \E date \in RecDates : SetTo(date)
    \/ Search

RecSpec == RecInit /\ [][RecNext]_vars

-----------------------------------------------------------------------------
\* Civil dates on the app zone, for stating the properties

\* day number of the civil date an instant falls on, on the app zone's calendar
AppDay(d) == Day(d + APP_TZ_OFFSET)

\* the date-key of a day number
DayKey(n) == toLocaleDateString(MakeDate(n, 0), 0)

\* 0 = Monday .. 6 = Sunday
MondayIndex(n) == (n + 3) % 7

\* first day of the calendar month of day n, and of the month k months later
FirstOfMonth(n, k) ==
    LET c == CivilFromDays(n) IN MakeDay(c.y, (c.m - 1) + k, 1)

\* the date-keys of the days of the calendar month k months after that of day n
MonthKeys(n, k) == {DayKey(j) : j \in FirstOfMonth(n, k)..(FirstOfMonth(n, k + 1) - 1)}

\* keys is a run of consecutive civil days starting at day number first
ConsecutiveFrom(keys, first) == \A i \in 1..Len(keys) : keys[i] = DayKey(first + i - 1)

\* the window on the screen
ViewKeys == WindowKeys(currentDate, mode, tzOffset)

-----------------------------------------------------------------------------
\* C1: the week window is the 7 consecutive civil dates that start on the
\* Monday on or before the cursor's civil date (so it contains that date).
C1_WeekWindow ==
    mode = "week" =>
        LET c == AppDay(currentDate)
        IN  /\ Len(ViewKeys) = 7
            /\ ConsecutiveFrom(ViewKeys, c - MondayIndex(c))
            /\ \E i \in 1..7 : ViewKeys[i] = toLocalDateKey(currentDate)

\* C2: the month window has 42 elements, each one civil day after the
\* previous one, and every day of the cursor's calendar month occurs in it.
C2_MonthWindow ==
    mode = "month" =>
        /\ Len(ViewKeys) = 42
        /\ ConsecutiveFrom(ViewKeys, AppDay(WindowDays(currentDate, mode, tzOffset)[1]))
        /\ MonthKeys(AppDay(currentDate), 0) \subseteq Range(ViewKeys)

\* C3: the month window starts on the Monday padStart (0..6) days before the
\* first day of the cursor's month, so grid position i has weekday (i mod 7)
\* counted from Monday.
C3_MonthGridMonday ==
    mode = "month" =>
        LET first == FirstOfMonth(AppDay(currentDate), 0)
            days == WindowDays(currentDate, mode, tzOffset)
        IN  /\ ViewKeys[1] = DayKey(first - MondayIndex(first))
            /\ \A i \in 1..Len(days) : MondayIndex(AppDay(days[i])) = (i - 1) % 7

\* C4: two runs that get the same clock, steps and meetings and differ only
\* in the runtime's local UTC offset show the same window date-keys; one of
\* the two runs is the run on a runtime in the app zone.
C4_SameWindowInEveryZone ==
    ViewKeys = WindowKeys(refDate, mode, APP_TZ_OFFSET)

\* C5: in the initial state (mode week, nothing selected) and right after
\* goToToday the cursor's date-key is today's date on the app zone, at any
\* instant and for any local offset of the runtime.
C5_CursorIsToday ==
    /\ Init => /\ mode = "week"
               /\ selectedMeeting = NoMeeting
               /\ toLocalDateKey(currentDate) = DayKey(AppDay(now))
    /\ [][GoToToday => toLocalDateKey(currentDate') = DayKey(AppDay(now'))]_vars

\* the clock has passed app midnight since the start and Today was pressed:
\* the cursor is on the new day, on a runtime west of UTC
C5_Witness ==
    /\ navCount = 0
    /\ tzOffset = -300
    /\ TimeWithinDay(now) # ClockFirstHour * 60
    /\ DayKey(AppDay(now)) = "2025-02-01"
    /\ toLocalDateKey(currentDate) = "2025-02-01"

\* C6: in month mode navigate(delta) moves the cursor to the calendar month
\* exactly delta months away (with year rollover), and the window then shown
\* holds every day of that month in 42 consecutive cells.
C6_MonthNavigate ==
    [][\A delta \in Deltas :
          (mode = "month" /\ Navigate(delta)) =>
              /\ FirstOfMonth(AppDay(currentDate'), 0) = FirstOfMonth(AppDay(currentDate), delta)
              /\ MonthKeys(AppDay(currentDate), delta) \subseteq Range(WindowKeys(currentDate', mode', tzOffset'))
              /\ Len(WindowKeys(currentDate', mode', tzOffset')) = 42
              /\ ConsecutiveFrom(WindowKeys(currentDate', mode', tzOffset'), AppDay(WindowDays(currentDate', mode', tzOffset')[1]))
      ]_vars

\* C7: in week mode navigate(delta) moves the cursor by exactly 7 * delta
\* civil days and the window is the previous one shifted by 7 * delta days,
\* so successive windows neither overlap nor leave a gap.
C7_WeekNavigate ==
    [][\A delta \in Deltas :
          (mode = "week" /\ Navigate(delta)) =>
              LET old == WindowDays(currentDate, mode, tzOffset)
              IN  /\ AppDay(currentDate') = AppDay(currentDate) + 7 * delta
                  /\ Len(WindowKeys(currentDate', mode', tzOffset')) = 7
                  /\ \A i \in 1..7 : WindowKeys(currentDate', mode', tzOffset')[i] = DayKey(AppDay(old[i]) + 7 * delta)
                  /\ delta = 1 => WindowKeys(currentDate', mode', tzOffset')[1] = DayKey(AppDay(old[7]) + 1)
                  /\ delta = -1 => WindowKeys(currentDate', mode', tzOffset')[7] = DayKey(AppDay(old[1]) - 1)
      ]_vars

\* one press of Next in week mode has moved the cursor from 2024-12-30 into
\* the next year, on a runtime west of UTC
C7_Witness ==
    /\ mode = "week"
    /\ navCount = 1
    /\ tzOffset = -300
    /\ DayKey(AppDay(now)) = "2024-12-30"
    /\ toLocalDateKey(currentDate) = "2025-01-06"

-----------------------------------------------------------------------------
\* Bucketing

\* the date-keys of the window on the screen, and the meetings drawn under each
ScreenKeys == Listed(ViewKeys)

ScreenCells == LET keys == ScreenKeys IN Listed([i \in 1..Len(keys) |-> Drawn(meetings, mode, keys[i])])

\* number of meetings before position k of the snapshot that have its date
EarlierSameDate(k) == Cardinality({j \in 1..(k - 1) : meetings[j].date = meetings[k].date})

\* a sequence of meetings that is in the order of the snapshot, without repeats
InCollectionOrder(seq) ==
    \A a, b \in 1..Len(seq) :
        a < b => \E j, k \in 1..Len(meetings) : j < k /\ meetings[j] = seq[a] /\ meetings[k] = seq[b]

\* C8 as stated: a meeting is drawn under window day d exactly if its date
\* is string-equal to dateKey(d); it is drawn once if its date is in the
\* window and nowhere otherwise; a day's meetings keep the collection order.
C8_DrawnIffDateMatches ==
    LET keys == ScreenKeys
        cells == ScreenCells
        keySet == Range(keys)
        shown == Listed([i \in 1..Len(keys) |-> Range(cells[i])])
        CellsOf(k) == {i \in 1..Len(keys) : meetings[k] \in shown[i]}
    IN  /\ \A i \in 1..Len(keys) :
              /\ \A k \in 1..Len(meetings) :
                     meetings[k] \in shown[i] <=> meetings[k].date = keys[i]
              /\ InCollectionOrder(cells[i])
        /\ \A k \in 1..Len(meetings) :
              Cardinality(CellsOf(k)) = IF meetings[k].date \in keySet THEN 1 ELSE 0

\* C8, amended: in week mode a meeting is drawn under window day d exactly
\* if its date is string-equal to dateKey(d); in month mode exactly if, in
\* addition, fewer than 3 meetings of that date precede it in the collection.
\* A meeting is drawn under at most one day, under none if its date is not a
\* key of the window, and a day's meetings keep the collection order.
C8_Bucketing ==
    LET keys == ScreenKeys
        cells == ScreenCells
        keySet == Range(keys)
        shown == Listed([i \in 1..Len(keys) |-> Range(cells[i])])
        CellsOf(k) == {i \in 1..Len(keys) : meetings[k] \in shown[i]}
    IN  /\ \A i \in 1..Len(keys) :
              /\ \A k \in 1..Len(meetings) :
                     meetings[k] \in shown[i] <=>
                         /\ meetings[k].date = keys[i]
                         /\ mode = "month" => EarlierSameDate(k) < 3
              /\ InCollectionOrder(cells[i])
        /\ \A k \in 1..Len(meetings) :
              /\ Cardinality(CellsOf(k)) <= 1
              /\ meetings[k].date \notin keySet => CellsOf(k) = {}
              /\ (mode = "week" /\ meetings[k].date \in keySet) => Cardinality(CellsOf(k)) = 1

\* a month cell holding more than three meetings is on the screen, and the
\* snapshot has a meeting of a day outside the window
C8_Witness ==
    LET keys == ScreenKeys
        cells == ScreenCells
    IN  /\ mode = "month"
        /\ \E i \in 1..Len(keys) :
              /\ Len(dayMeetings(meetings, keys[i])) = 4
              /\ Len(cells[i]) = 3
        /\ \E k \in 1..Len(meetings) : meetings[k].date \notin Range(keys)

-----------------------------------------------------------------------------
\* Geometry

TheMeeting == Mtg("m1", "2025-03-10", "09:30", 60)

\* the week window on the screen shows 2025-03-10 and the snapshot holds the
\* 09:30 meeting of that day
C9_Case ==
    /\ mode = "week"
    /\ "2025-03-10" \in Range(ScreenKeys)
    /\ TheMeeting \in Range(meetings)

\* the blocks drawn for meeting m: <<column, position in the column>>
BlocksOf(m) ==
    LET keys == ScreenKeys
    IN  {<<i, k>> \in (1..Len(keys)) \X (1..Len(meetings)) :
            /\ k <= Len(WeekColumn(meetings, keys[i]))
            /\ WeekColumn(meetings, keys[i])[k].meeting = m}

\* C9 as stated: the meeting is placed in exactly one day column, at
\* top = 1.5 * cellHeight when startHour = 0.
C9_TopWithStartHourZero ==
    C9_Case =>
        LET hm == ParseStartTime(TheMeeting.startTime)
        IN  /\ Cardinality(BlocksOf(TheMeeting)) = 1
            /\ 2 * verticalOffset(hm.hours, hm.minutes, 0, CELL_HEIGHT) = 3 * (CELL_HEIGHT * 60)

\* C9, amended: the meeting is placed in exactly one day column, at
\* top = 1.5 * cellHeight with the grid's start hour, START_HOUR = 8 (with a
\* start hour of 0 the top is 9.5 * cellHeight).
C9_TopWithGridStartHour ==
    C9_Case =>
        LET hm == ParseStartTime(TheMeeting.startTime)
        IN  /\ Cardinality(BlocksOf(TheMeeting)) = 1
            /\ \A b \in BlocksOf(TheMeeting) :
                  LET style == WeekColumn(meetings, ScreenKeys[b[1]])[b[2]].style
                  IN  /\ ScreenKeys[b[1]] = "2025-03-10"
                      /\ 2 * style.top = 3 * (CELL_HEIGHT * 60)
            /\ 2 * verticalOffset(hm.hours, hm.minutes, 0, CELL_HEIGHT) = 19 * (CELL_HEIGHT * 60)

C9_Witness ==
    /\ C9_Case
    /\ tzOffset = 540
    /\ navCount = 1
    /\ DayKey(AppDay(now)) = "2025-03-09"
    /\ Cardinality(BlocksOf(TheMeeting)) = 1

\* (h1, m1) is before (h2, m2) in lexicographic order
Before(h1, m1, h2, m2) == h1 < h2 \/ (h1 = h2 /\ m1 < m2)

\* C10: the top of a block is 0 for a start time of startHour:00, and a
\* later start time (hours 0..23, minutes 0..59, in lexicographic order)
\* always gets a strictly larger top, for any positive cell height.
C10_OffsetIncreasing ==
    LET hm == ParseStartTime(meetings[1].startTime)
        top == WeekColumn(meetings, "2025-03-10")[1].style.top
    IN  /\ (hm.hours = START_HOUR /\ hm.minutes = 0) => top = 0
        /\ \A h2 \in 0..23, m2 \in 0..59 :
              /\ Before(hm.hours, hm.minutes, h2, m2) =>
                     top < verticalOffset(h2, m2, START_HOUR, CELL_HEIGHT)
              /\ Before(h2, m2, hm.hours, hm.minutes) =>
                     verticalOffset(h2, m2, START_HOUR, CELL_HEIGHT) < top
        /\ \A c \in 1..MaxCellHeight :
              /\ \A sh \in 0..23 : verticalOffset(sh, 0, sh, c) = 0
              /\ \A h2 \in 0..23, m2 \in 0..59 :
                     Before(hm.hours, hm.minutes, h2, m2) =>
                         verticalOffset(hm.hours, hm.minutes, START_HOUR, c)
                             < verticalOffset(h2, m2, START_HOUR, c)

\* the meeting starts at START_HOUR:00 and its block is at the top of the column
C10_Witness ==
    /\ meetings = <<ProbeMeeting(START_HOUR, 0)>>
    /\ Len(WeekColumn(meetings, "2025-03-10")) = 1
    /\ WeekColumn(meetings, "2025-03-10")[1].style.top = 0

-----------------------------------------------------------------------------
\* Geometry against the display window

\* minute of the day of a well-formed "HH:mm" start time, read off the digits
StartMinute(startTime) ==
    LET h == CHOOSE x \in 0..23 : Pad2(x) = SubSeq(startTime, 1, 2)
        mi == CHOOSE x \in 0..59 : Pad2(x) = SubSeq(startTime, 4, 5)
    IN  h * 60 + mi

\* height of the hours the grid shows, in sixtieths of a pixel
GridBottom == (END_HOUR - START_HOUR) * CELL_HEIGHT * 60

-----------------------------------------------------------------------------
\* The month cell's display cap

\* positions in the snapshot of the meetings of a date-key
PositionsOf(dateKey) == {k \in 1..Len(meetings) : meetings[k].date = dateKey}

\* C12: in month mode a cell with n matching meetings shows exactly the first
\* min(n, 3) of them in collection order, and a remainder count is shown
\* exactly if n > 3, with value n - 3: shown plus remainder is n.
C12_MonthCellCap ==
    mode = "month" =>
        LET keys == ScreenKeys
        IN  \A i \in 1..Len(keys) :
                LET n == Cardinality(PositionsOf(keys[i]))
                    cell == MonthCell(meetings, keys[i])
                    more == MoreCount(meetings, keys[i])
                IN  /\ Len(cell) = IF n < 3 THEN n ELSE 3
                    /\ \A j \in 1..Len(cell) :
                          \E k \in PositionsOf(keys[i]) :
                              /\ EarlierSameDate(k) = j - 1
                              /\ cell[j] = meetings[k]
                    /\ more > 0 <=> n > 3
                    /\ n > 3 => more = n - 3
                    /\ Len(cell) + more = n

\* the cell of 2025-03-10 has four meetings: the first three are shown, "+1 more"
C12_Witness ==
    /\ mode = "month"
    /\ tzOffset = APP_TZ_OFFSET
    /\ "2025-03-10" \in Range(ScreenKeys)
    /\ Cardinality(PositionsOf("2025-03-10")) = 4
    /\ Len(MonthCell(meetings, "2025-03-10")) = 3
    /\ MonthCell(meetings, "2025-03-10")[1].id = "m2"
    /\ MoreCount(meetings, "2025-03-10") = 1

-----------------------------------------------------------------------------
\* The today mark

\* grid positions of the window on the screen that a render at the instant
\* clock marks as today
MarkedAt(clock, keys) == {i \in 1..Len(keys) : isToday(clock, keys[i])}

\* C13: in every render, week or month, a column or cell is marked as today
\* exactly if its date-key is today's date on the app zone at that render, so
\* at most one is marked; and once the clock has passed app midnight a render
\* marks the new day and no longer the old one, with the cursor unmoved.
C13_TodayMark ==
    /\ [](LET keys == ScreenKeys
              marked == MarkedAt(now, keys)
              today == DayKey(AppDay(now))
          IN  /\ \A i \in 1..Len(keys) : i \in marked <=> keys[i] = today
              /\ Cardinality(marked) <= 1)
    /\ [][(Tick /\ AppDay(now') # AppDay(now)) =>
             /\ currentDate' = currentDate /\ mode' = mode
             /\ \A key \in Range(ScreenKeys) :
                   /\ isToday(now', key) <=> key = DayKey(AppDay(now) + 1)
                   /\ key = DayKey(AppDay(now)) => ~isToday(now', key)
         ]_vars

\* the clock has passed app midnight of 2024-12-30 and the cursor still is on
\* that day: the column of 2024-12-31 is the one marked
C13_Witness ==
    /\ tzOffset = APP_TZ_OFFSET
    /\ toLocalDateKey(currentDate) = "2024-12-30"
    /\ DayKey(AppDay(now)) = "2024-12-31"
    /\ \E i \in 1..Len(ScreenKeys) :
          /\ ScreenKeys[i] = "2024-12-31"
          /\ MarkedAt(now, ScreenKeys) = {i}

-----------------------------------------------------------------------------
\* The now line

-----------------------------------------------------------------------------
\* Frame conditions of the view transitions

\* C15: each view transition changes only its own state component.
\* switchMode sets mode and leaves cursor and selection alone, so the week
\* window is the same again after week -> month -> week; navigate and
\* goToToday change only the cursor; selecting and clearing change only the
\* selection; and the meetings collection changes only when the parent
\* supplies another snapshot.
C15_FrameConditions ==
    [][/\ \A m \in {"week", "month"} :
             SwitchMode(m) =>
                 /\ mode' = m
                 /\ currentDate' = currentDate
                 /\ selectedMeeting' = selectedMeeting
                 /\ WindowKeys(currentDate', "week", tzOffset') = WindowKeys(currentDate, "week", tzOffset)
       /\ mode' # mode =>
             /\ currentDate' = currentDate
             /\ selectedMeeting' = selectedMeeting
             /\ meetings' = meetings
       /\ ((\E delta \in Deltas : Navigate(delta)) \/ GoToToday \/ currentDate' # currentDate) =>
             /\ mode' = mode
             /\ selectedMeeting' = selectedMeeting
             /\ meetings' = meetings
       /\ (ClearSelection \/ selectedMeeting' # selectedMeeting) =>
             /\ mode' = mode
             /\ currentDate' = currentDate
             /\ meetings' = meetings
       /\ meetings' # meetings =>
             /\ \E ms \in Snapshots : ReceiveMeetings(ms)
             /\ mode' = mode
             /\ currentDate' = currentDate
             /\ selectedMeeting' = selectedMeeting
      ]_vars

\* the view has been switched to month, with the cursor still on today, and a
\* meeting has been selected there
C15_Witness ==
    /\ mode = "month"
    /\ navCount = 0
    /\ toLocalDateKey(currentDate) = DayKey(AppDay(now))
    /\ selectedMeeting # NoMeeting

-----------------------------------------------------------------------------
\* Re-rendering

\* the bucketed and positioned part of a render's output
Bucketed(r) == [keys |-> r.keys, cells |-> r.cells, more |-> r.more]

\* C16: a render that follows another one with the same meetings snapshot,
\* cursor and mode (the clock or the selection may have changed in between)
\* produces the same window date-keys, the same meetings per day in the same
\* order and the same top and height for every block.
C16_RenderIdempotent ==
    [][(meetings' = meetings /\ currentDate' = currentDate /\ mode' = mode) =>
          Bucketed(Render(now', currentDate', mode', tzOffset', meetings', selectedMeeting'))
              = Bucketed(Render(now, currentDate, mode, tzOffset, meetings, selectedMeeting))
      ]_vars

\* a render after the clock has passed app midnight from Sunday 2025-03-09
\* into Monday, with the cursor still on the Sunday and a meeting selected
C16_Witness ==
    /\ toLocalDateKey(currentDate) = "2025-03-09"
    /\ DayKey(AppDay(now)) = "2025-03-10"
    /\ selectedMeeting # NoMeeting
    /\ Render(now, currentDate, mode, tzOffset, meetings, selectedMeeting).modal = selectedMeeting
    /\ isToday(now, "2025-03-10")

-----------------------------------------------------------------------------
\* C17

\* the days on which the meetings of the list can lie
ListDays ==
    (DaysFromCivil(2024, 12, 30)..DaysFromCivil(2025, 1, 2))
        \cup (DaysFromCivil(2025, 4, 29)..DaysFromCivil(2025, 5, 3))

\* the start times tried next to a meeting's own
ListTimes == {"00:00", "08:00", "09:00", "10:00", "23:59"}

\* the day whose key is the given date
DayOfKey(dateKey) == CHOOSE n \in ListDays : DayKey(n) = dateKey

\* the instant at which the wall clock of the app's zone shows the meeting's
\* date and start time
AppInstant(m) ==
    MakeDate(DayOfKey(m.date), StartMinute(m.startTime)) - APP_TZ_OFFSET

\* the number of times x occurs in the sequence
Occurrences(seq, x) == Cardinality({i \in 1..Len(seq) : seq[i] = x})

\* the position of x in the sequence
PositionIn(seq, x) == CHOOSE i \in 1..Len(seq) : seq[i] = x

\* C17: the list view's output is a permutation of the supplied meetings, in
\* ascending order of the app-zone instant of (date, startTime); meetings
\* with equal instants keep their order of the input; the instant that is
\* the sort key grows with the time for a fixed date and with the date for a
\* fixed time; of two meetings on 2025-05-01 at 09:00 and at 08:00 the 08:00
\* one comes first
C17_ListSorted ==
    LET out == sorted(meetings)
    IN  /\ Len(out) = Len(meetings)
        /\ \A m \in Range(meetings) : Occurrences(out, m) = Occurrences(meetings, m)
        /\ \A i, j \in 1..Len(out) :
              i < j =>
                /\ AppInstant(out[i]) <= AppInstant(out[j])
                /\ AppInstant(out[i]) = AppInstant(out[j]) =>
                      PositionIn(meetings, out[i]) < PositionIn(meetings, out[j])
        /\ \A m \in Range(meetings) :
              LET key == parseAsAppTz(m.date, m.startTime)
                  day == DayOfKey(m.date)
              IN  /\ key = AppInstant(m)
                  /\ \A t \in ListTimes :
                        StartMinute(t) > StartMinute(m.startTime) => parseAsAppTz(m.date, t) > key
                  /\ \A n \in ListDays :
                        n > day => parseAsAppTz(DayKey(n), m.startTime) > key
        /\ \A i, j \in 1..Len(out) :
              /\ out[i].date = "2025-05-01" /\ out[i].startTime = "08:00"
              /\ out[j].date = "2025-05-01" /\ out[j].startTime = "09:00"
              => i < j

\* the two 09:00 meetings of 2025-05-01 were supplied before the 08:00 one:
\* the list shows the 08:00 one first and the other two in their input order
C17_Witness ==
    /\ meetings = << Mtg("d", "2025-05-01", "09:00", 45), Mtg("a", "2025-05-01", "09:00", 60),
                     Mtg("b", "2025-05-01", "08:00", 60) >>
    /\ sorted(meetings) = << Mtg("b", "2025-05-01", "08:00", 60), Mtg("d", "2025-05-01", "09:00", 45),
                             Mtg("a", "2025-05-01", "09:00", 60) >>

-----------------------------------------------------------------------------
\* C18

\* C18: a step of the view that calls the parent makes exactly one call,
\* onDelete or onEdit, with the id of the meeting that was selected; the
\* same step clears the selection and leaves the snapshot, the mode and the
\* cursor alone, so that the cell of the meeting's date is drawn as before;
\* the selection is never cleared with more than that one call; and the
\* snapshot changes only in a step of the parent, which makes no call and
\* leaves the selection alone
C18_FireAndForget ==
    /\ [][emitted' # <<>> =>
            /\ selectedMeeting # NoMeeting
            /\ Len(emitted') = 1
            /\ emitted'[1].fn \in {"onDelete", "onEdit"}
            /\ emitted'[1].id = selectedMeeting[1].id
            /\ selectedMeeting' = NoMeeting
            /\ meetings' = meetings /\ mode' = mode /\ currentDate' = currentDate
            /\ Drawn(meetings', mode', selectedMeeting[1].date)
                  = Drawn(meetings, mode, selectedMeeting[1].date)]_vars
    /\ [][meetings' # meetings =>
            /\ emitted' = <<>>
            /\ selectedMeeting' = selectedMeeting]_vars

\* delete was pressed for a meeting that is still drawn on the screen, with
\* the modal closed
C18_Witness ==
    /\ emitted # <<>>
    /\ emitted[1].fn = "onDelete"
    /\ selectedMeeting = NoMeeting
    /\ \E m \in OnScreen : m.id = emitted[1].id

-----------------------------------------------------------------------------
\* C19

\* the meetings of the collection that carry the submitted data
SavedAs(stored, data) ==
    {m \in Range(stored) :
        /\ m.title = data.title /\ m.date = data.date /\ m.startTime = data.startTime
        /\ m.durationMinutes = data.durationMinutes}

\* C19, as stated: with the Zoom API disabled, the submission of a new
\* booking sends no request to the Zoom API, shows no failure and goes on to
\* store the meeting; and when it ends the meeting is in the stored
\* collection and in the snapshot of the schedule, which is the view shown
C19_CreateWithZoomDisabled ==
    /\ [][(~app.useZoomApi /\ app.editingMeetingId = None /\ app'.submits = app.submits + 1) =>
            /\ app'.pc = "store"
            /\ app'.alerts = app.alerts
            /\ \A i \in 1..Len(app'.zoomCalls) : ~app'.zoomCalls[i].sent]_vars
    /\ [][(~app.useZoomApi /\ app.pc = "store" /\ app.job.editingId = None /\ app'.pc = "idle") =>
            /\ SavedAs(app'.storage, app.job.data) # {}
            /\ SavedAs(app'.storage, app.job.data) \subseteq Range(meetings')
            /\ Len(app'.storage) = Len(app.storage) + 1
            /\ app'.view = "SCHEDULE"]_vars

\* with the Zoom API disabled the stored collection never grows
NothingCreatedWithZoomDisabled ==
    ~app.useZoomApi => \E stored \in StoredCollections : Len(app.storage) = Len(stored)

-----------------------------------------------------------------------------
\* C20

\* C20, as stated: with the Zoom API enabled, when the edit of a meeting
\* that has a zoomMeetingId and a Zoom link is stored, updateZoomMeeting has
\* been called for that zoomMeetingId with the submitted title, date, start
\* time and duration
C20_EditUpdatesZoom ==
    [][(/\ app.useZoomApi
        /\ app.pc = "store" /\ app'.pc = "idle"
        /\ app.job.editingId # None
        /\ \E m \in Range(app.storage) :
              m.id = app.job.editingId /\ m.zoomMeetingId # None /\ m.zoomLink # None)
       => \E i \in 1..Len(app.zoomCalls) :
            \E m \in Range(app.storage) :
              /\ m.id = app.job.editingId
              /\ app.zoomCalls[i].fn = "updateZoomMeeting"
              /\ app.zoomCalls[i].sent
              /\ app.zoomCalls[i].meetingId = m.zoomMeetingId
              /\ app.zoomCalls[i].topic = app.job.data.title
              /\ app.zoomCalls[i].date = app.job.data.date
              /\ app.zoomCalls[i].startTime = app.job.data.startTime
              /\ app.zoomCalls[i].durationMinutes = app.job.data.durationMinutes]_vars

\* the edit of a meeting that has a Zoom link never calls updateZoomMeeting
NoUpdateForLinkedMeeting ==
    \A i \in 1..Len(app.zoomCalls) :
        app.zoomCalls[i].fn = "updateZoomMeeting" =>
            \A m \in Range(app.storage) :
                m.zoomMeetingId = app.zoomCalls[i].meetingId => m.zoomLink = None

-----------------------------------------------------------------------------
\* C24

\* the instant of a start_time that toISOString wrote
InstantOf(start_time) == CHOOSE t \in TzInstants : toISOString(t) = start_time

\* C24, as stated: the meeting made from a Zoom meeting that starts at the
\* UTC instant t has the civil date and the HH:mm of t + 8 hours, with the
\* hour in 00..23, and parseAsAppTz of that date and time is t again
C24_UtcToAppTzRoundTrip ==
    \A i \in 1..Len(meetings) :
        LET t == InstantOf(app.zoom[i].start_time)
            wall == t + APP_TZ_OFFSET
            c == CivilFromDays(Day(wall))
            h == TimeWithinDay(wall) \div 60
            hm == ParseStartTime(meetings[i].startTime)
        IN  /\ meetings[i].date = Pad4(c.y) \o "-" \o Pad2(c.m) \o "-" \o Pad2(c.d)
            /\ meetings[i].startTime = Pad2(h) \o ":" \o Pad2(TimeWithinDay(wall) % 60)
            /\ hm.hours \in 0..23
            /\ parseAsAppTz(meetings[i].date, meetings[i].startTime) = t

\* the same on an engine with hour cycle h23 alone
RoundTripOnH23 == app.hourCycle = "h23" => C24_UtcToAppTzRoundTrip

-----------------------------------------------------------------------------
\* C25

\* the UTC day of a "YYYY-MM-DD" date
UtcDayOf(date) ==
    DaysFromCivil(Number(SubSeq(date, 1, 4)), Number(SubSeq(date, 6, 7)), Number(SubSeq(date, 9, 10)))

\* the last day of the month the day lies in
LastDayOfMonth(day) ==
    LET c == CivilFromDays(day)
    IN  DaysFromCivil(IF c.m = 12 THEN c.y + 1 ELSE c.y, IF c.m = 12 THEN 1 ELSE c.m + 1, 1) - 1

\* the chunks are in ascending order, contiguous and without overlap, from
\* the first day of the range to its last
ChunksCover(chunks, from, to) ==
    /\ chunks # <<>>
    /\ UtcDayOf(chunks[1].from) = UtcDayOf(from)
    /\ UtcDayOf(chunks[Len(chunks)].to) = UtcDayOf(to)
    /\ \A i \in 1..Len(chunks) : UtcDayOf(chunks[i].from) <= UtcDayOf(chunks[i].to)
    /\ \A i \in 1..(Len(chunks) - 1) : UtcDayOf(chunks[i + 1].from) = UtcDayOf(chunks[i].to) + 1

\* C25, as stated: for from <= to the requests of a search are chunks that
\* cover the range, ascending, contiguous and without overlap, and every
\* chunk ends on the last day of the month in which it starts, or at to
C25_MonthChunks ==
    (emitted # <<>> /\ UtcDayOf(app.from) <= UtcDayOf(app.to)) =>
        /\ ChunksCover(emitted, app.from, app.to)
        /\ \A i \in 1..Len(emitted) :
              \/ UtcDayOf(emitted[i].to) = LastDayOfMonth(UtcDayOf(emitted[i].from))
              \/ /\ emitted[i].to = app.to
                 /\ UtcDayOf(app.to) <= LastDayOfMonth(UtcDayOf(emitted[i].from))

\* the loop ends for every range and its chunks cover the range
ChunksCoverRange ==
    LET chunks == MonthChunks(app.from, app.to)
    IN  IF UtcDayOf(app.from) <= UtcDayOf(app.to)
        THEN ChunksCover(chunks, app.from, app.to)
        ELSE chunks = <<>>

-----------------------------------------------------------------------------
\* C21

Ids(ms) == {ms[i].id : i \in 1..Len(ms)}

\* C21: whatever the DELETE request ends with, handleDelete goes on to the
\* local deletion, and only a rejected fetch or a status other than 2xx, 204
\* and 404 counts as an error; when handleDelete completes, the meeting alone
\* has been taken out of storage and is absent from the displayed collection;
\* the function answers Zoom's 204 and 404 with a status that is no error
C21_DeleteDespiteZoomFailure ==
    /\ [][\A status \in DeleteStatuses \cup {NoResponse} :
            ZoomDeleteResponds(status) =>
                /\ app'.del.pc = "store"
                /\ app'.del.id = app.del.id
                /\ app'.del.caught <=> status \notin {200, 204, 404}]_vars
    /\ [][(app.del.pc # "done" /\ app'.del.pc = "done") =>
            /\ app.del.pc = "store"
            /\ app'.storage = SelectSeq(app.storage, LAMBDA m : m.id # app.del.id)
            /\ app.del.id \notin Ids(app'.storage)
            /\ app.del.id \notin Ids(meetings')
            /\ Range(meetings') = Range(app'.storage)]_vars
    /\ [](\A zoomStatus \in {204, 404} : ~deleteZoomMeetingThrows(zoomMeetingDELETE(zoomStatus)))

\* handleDelete has completed for a meeting whose Zoom deletion threw, and
\* the meeting is gone from storage and from the displayed collection
C21_Witness ==
    /\ app.del.pc = "done"
    /\ app.del.caught
    /\ app.del.id \notin Ids(app.storage)
    /\ app.del.id \notin Ids(meetings)

-----------------------------------------------------------------------------
\* C22

\* the step on which syncMeetingsFromZoom returns after a non-empty list
SyncMerges ==
    /\ app.sync.pc = "list"
    /\ app'.sync.pc = "idle"
    /\ app'.listed = "ok"
    /\ app'.zoom # <<>>

DistinctIds(ms) == \A i, j \in 1..Len(ms) : ms[i].id = ms[j].id => i = j

Ascending(ms) ==
    \A i, j \in 1..Len(ms) :
        i < j => parseAsAppTz(ms[i].date, ms[i].startTime) <= parseAsAppTz(ms[j].date, ms[j].startTime)

\* C22: the list syncMeetingsFromZoom returns for a non-empty Zoom list,
\* which in local mode is also the list it persists, has pairwise distinct
\* ids and is in ascending order of app-timezone start instant
C22_SyncDistinctAscending ==
    [][SyncMerges =>
          /\ DistinctIds(meetings')
          /\ Ascending(meetings')
          /\ ~app.supabase => app'.storage = meetings']_vars

\* the part that holds: the returned list has pairwise distinct ids and, in
\* local mode, is the list persisted
SyncReturnsDistinctIds ==
    [][SyncMerges =>
          /\ DistinctIds(meetings')
          /\ ~app.supabase => app'.storage = meetings']_vars

-----------------------------------------------------------------------------
\* C23

\* the step on which a syncMeetingsFromZoom call that got no meetings ends:
\* at once when Zoom is disabled, else when the list request ends
SyncEndsDisabled == app.sync.pc = "idle" /\ app'.syncs = app.syncs + 1 /\ ~app.useZoomApi

SyncEndsWithoutList == app.sync.pc = "list" /\ app'.sync.pc = "idle" /\ ~SyncMerges

\* C23: when listing fails, Zoom is disabled or Zoom has no meetings,
\* syncMeetingsFromZoom returns the collection it has read and writes
\* nothing; otherwise every meeting it has read that has no zoomMeetingId is
\* in the list it returns, unchanged
C23_SyncKeepsStored ==
    /\ [][SyncEndsDisabled =>
            /\ app'.listed = "ok"
            /\ meetings' \in loadMeetings(app.supabase, app.storage)
            /\ app'.storage = app.storage]_vars
    /\ [][SyncEndsWithoutList =>
            /\ app'.listed # "rejected"
            /\ meetings' = app.sync.local
            /\ app'.storage = app.storage]_vars
    /\ [][SyncMerges =>
            \A m \in Range(app.sync.local) :
                m.zoomMeetingId = None => m \in Range(meetings')]_vars

\* the part that holds: without a list nothing is written, and a call that
\* returns at all returns the collection it has read
SyncWithoutListWritesNothing ==
    /\ [][SyncEndsDisabled =>
            /\ meetings' \in loadMeetings(app.supabase, app.storage)
            /\ app'.storage = app.storage]_vars
    /\ [][SyncEndsWithoutList =>
            /\ app'.storage = app.storage
            /\ app'.listed # "rejected" => meetings' = app.sync.local]_vars

\* the second part alone: manual meetings survive the merge
ManualMeetingsSurviveMerge ==
    [][SyncMerges =>
          \A m \in Range(app.sync.local) :
              m.zoomMeetingId = None => m \in Range(meetings')]_vars

-----------------------------------------------------------------------------
\* C26

ZoomIds == {z.id : z \in {Zoom111, Zoom111Late, Zoom222, Zoom333}}

\* the entry m stands for the Zoom meeting zid: by its zoomMeetingId, by its
\* join link or by the id zoomToMeeting gives
Represents(m, zid) ==
    \/ m.zoomMeetingId = zid
    \/ m.zoomLink = JoinUrl(zid)
    \/ m.id = "zoom-" \o zid

OneEntryPerZoomMeeting(ms) ==
    \A zid \in ZoomIds : \A i, j \in 1..Len(ms) :
        Represents(ms[i], zid) /\ Represents(ms[j], zid) => i = j

\* the step on which handleBookingSubmit stores an edited meeting
StoresEdit == app.pc = "store" /\ app.job.editingId # None /\ app'.pc = "idle"

ZoomMeetingIdOf(stored, id) ==
    {stored[i].zoomMeetingId : i \in {k \in 1..Len(stored) : stored[k].id = id}}

\* C26: no Zoom meeting is represented by two entries, in storage or in the
\* displayed collection, and an edit leaves the zoomMeetingId of the edited
\* meeting as it was
C26_OneEntryPerZoomMeeting ==
    /\ [](OneEntryPerZoomMeeting(app.storage) /\ OneEntryPerZoomMeeting(meetings))
    /\ [][StoresEdit =>
            ZoomMeetingIdOf(app'.storage, app.job.editingId)
                = ZoomMeetingIdOf(app.storage, app.job.editingId)]_vars

\* the first part alone
NoZoomMeetingTwice ==
    OneEntryPerZoomMeeting(app.storage) /\ OneEntryPerZoomMeeting(meetings)

\* as long as no edit has been submitted, no Zoom meeting is represented twice
NoZoomMeetingTwiceWithoutEdit ==
    app.submits = 0 => OneEntryPerZoomMeeting(app.storage) /\ OneEntryPerZoomMeeting(meetings)

-----------------------------------------------------------------------------
\* C27

\* C27: in local mode, what a sync leaves in storage is the Zoom merge of
\* what storage holds when the sync completes, so that an update or a
\* deletion completed while the list request was in flight is part of it
C27_SyncKeepsConcurrentWrites ==
    [][(SyncMerges /\ ~app.supabase) =>
          app'.storage = syncResult(app.storage, app'.zoom, app.hourCycle)]_vars

\* what the code does instead: it writes the merge of the collection it read
\* before the list request
SyncWritesMergeOfWhatItRead ==
    [][(SyncMerges /\ ~app.supabase) =>
          app'.storage = syncResult(app.sync.local, app'.zoom, app.hourCycle)]_vars

\* a manual meeting deleted in local mode is absent from storage once no
\* sync is in flight
ManualDeleteNotUndone ==
    (app.del.pc = "done" /\ app.del.id = "m3" /\ app.sync.pc = "idle" /\ ~app.supabase)
        => "m3" \notin Ids(app.storage)

-----------------------------------------------------------------------------
\* C28

\* C28: once syncMeetingsFromZoom has completed with a non-empty Zoom list,
\* loadMeetings() returns exactly the meetings the sync returned, with
\* localStorage and with Supabase; a Zoom-linked meeting the sync has read
\* that is not in the Zoom list is in neither
C28_LoadReturnsSyncResult ==
    [][SyncMerges =>
          \A loaded \in loadMeetings(app.supabase, app'.storage) :
              /\ Range(loaded) = Range(meetings')
              /\ \A m \in Range(app.sync.local) :
                    (m.zoomMeetingId # None /\ m.zoomMeetingId \notin {z.id : z \in Range(app'.zoom)})
                        => m.id \notin Ids(loaded) \cup Ids(meetings')]_vars

\* the claim for localStorage alone
LocalLoadReturnsSyncResult ==
    [][(SyncMerges /\ ~app.supabase) =>
          \A loaded \in loadMeetings(app.supabase, app'.storage) :
              /\ loaded = meetings'
              /\ \A m \in Range(app.sync.local) :
                    (m.zoomMeetingId # None /\ m.zoomMeetingId \notin {z.id : z \in Range(app'.zoom)})
                        => m.id \notin Ids(loaded)]_vars

====
